---- MODULE Spec2Model ----
(***************************************************************************)
(* Model of the Tissue AI backend revisions of saiveer-singh/ezcode:       *)
(*   index.js lines 1-238    v4.0  (node http, in-memory ledger)           *)
(*   index.js lines 239-663  v4.1  (node http, validated ledger)           *)
(*   unnamed/part_000        v3.7  (node http, in-memory ledger)           *)
(*   unnamed/part_001        v7.0  (node http, validate-and-retry proxy)   *)
(*   unnamed/part_002        PostgreSQL ledger (express)                   *)
(*   unnamed/part_003        tiered proxy with a rate limiter (express)    *)
(*   unnamed/part_004        v2.1.0 remote-document ledger (express)       *)
(* The variable rev says which revision of the node http server runs.     *)
(* A server takes its requests one at a time: the ledger handlers never   *)
(* await, and the generation handler neither reads nor writes userCoins,  *)
(* so a request taken while a vendor call is pending would see and leave  *)
(* the same state as one taken after it.                                  *)
(***************************************************************************)
EXTENDS Integers, Sequences, FiniteSets, TLC

VARIABLES rev, apiKey, userCoins, req, res, gen, calls, table, pg, fbDocs, fbRes, fbFailed,
          now, ticks, rateLimits, admitted, allowed, settled

vars == <<rev, apiKey, userCoins, req, res, gen, calls, table, pg, fbDocs, fbRes, fbFailed,
          now, ticks, rateLimits, admitted, allowed, settled>>

httpVars == <<rev, apiKey, userCoins, req, res, gen, calls, settled>>

pgVars == <<table, pg>>

eqVars == <<fbDocs, fbRes, fbFailed>>

limVars == <<now, ticks, rateLimits, admitted, allowed>>

\* calls and settled belong to the request in hand: the vendor calls made
\* for it so far, and how the last of them settled

(***************************************************************************)
(* Bounds of the model.                                                    *)
(***************************************************************************)
\* largest whole part of a balance that an add may produce
MaxCoins == 100

\* longest string that an unvalidated add may store
MaxStrLen == 2

\* largest whole part of a debt that an unvalidated add may produce
MaxDebt == 2

(***************************************************************************)
(* JavaScript values.  A number is w + f/2 with f in {0,1}, so that the    *)
(* fractional JSON numbers 0.5, 1.5, ... are values of the model; all of   *)
(* them are exact in IEEE double arithmetic.                               *)
(***************************************************************************)
Undefined == [t |-> "undefined", w |-> 0, f |-> 0, s |-> <<>>]

Null == [t |-> "null", w |-> 0, f |-> 0, s |-> <<>>]

NaN == [t |-> "NaN", w |-> 0, f |-> 0, s |-> <<>>]

Num(w, f) == [t |-> "number", w |-> w, f |-> f, s |-> <<>>]

Str(s) == [t |-> "string", w |-> 0, f |-> 0, s |-> s]

\* the typeof operator
TypeOf(v) ==
  CASE v.t \in {"number", "NaN"} -> "number"
    [] v.t = "null" -> "object"
    [] OTHER -> v.t

\* ToBoolean: 0, NaN, "", null and undefined are falsy
Truthy(v) ==
  CASE v.t = "number" -> ~(v.w = 0 /\ v.f = 0)
    [] v.t = "string" -> v.s # <<>>
    [] OTHER -> FALSE

\* a || b
Or(a, b) == IF Truthy(a) THEN a ELSE b

\* v < 0 for v of type number
LtZero(v) == v.t = "number" /\ v.w < 0

\* v <= 0 for v of type number
LeZero(v) == v.t = "number" /\ (v.w < 0 \/ (v.w = 0 /\ v.f = 0))

Digit(d) == <<"0", "1", "2", "3", "4", "5", "6", "7", "8", "9">>[d + 1]

RECURSIVE NatToString(_)
NatToString(n) ==
  IF n < 10 THEN <<Digit(n)>> ELSE NatToString(n \div 10) \o <<Digit(n % 10)>>

\* Number.prototype.toString for w + f/2
NumToString(v) ==
  LET neg == v.w < 0
      whole == IF neg THEN (0 - v.w) - v.f ELSE v.w
      frac == IF v.f = 1 THEN <<".", "5">> ELSE <<>>
  IN (IF neg THEN <<"-">> ELSE <<>>) \o NatToString(whole) \o frac

\* ToString
ToStr(v) ==
  CASE v.t = "string" -> v.s
    [] v.t = "number" -> NumToString(v)
    [] v.t = "NaN" -> <<"N", "a", "N">>
    [] v.t = "null" -> <<"n", "u", "l", "l">>
    [] OTHER -> <<"u", "n", "d", "e", "f", "i", "n", "e", "d">>

\* ToNumber of a non-string primitive
ToNum(v) ==
  CASE v.t = "number" -> v
    [] v.t = "null" -> Num(0, 0)
    [] OTHER -> NaN

\* a + b: concatenation when either side is a string, else numeric addition
Plus(a, b) ==
  IF a.t = "string" \/ b.t = "string"
  THEN Str(ToStr(a) \o ToStr(b))
  ELSE LET x == ToNum(a)
           y == ToNum(b)
       IN IF x.t = "NaN" \/ y.t = "NaN"
          THEN NaN
          ELSE Num(x.w + y.w + ((x.f + y.f) \div 2), (x.f + y.f) % 2)

\* the values an add may store within the bounds of the model
InBounds(v) ==
  /\ v.t = "number" => (v.w <= MaxCoins /\ v.w >= 0 - MaxDebt)
  /\ v.t = "string" => Len(v.s) <= MaxStrLen

(***************************************************************************)
(* Map: userCoins = new Map()                                              *)
(***************************************************************************)
EmptyMap == [k \in {} |-> Undefined]

Has(m, k) == k \in DOMAIN m

Get(m, k) == IF k \in DOMAIN m THEN m[k] ELSE Undefined

Set(m, k, v) == [x \in (DOMAIN m) \cup {k} |-> IF x = k THEN v ELSE m[x]]

STARTING_COINS == Num(100, 0)

(***************************************************************************)
(* Requests.  A pathname is the sequence of its segments after the leading *)
(* slash: "/api/coins/u1/add" is <<"api","coins","u1","add">> and          *)
(* "/api/coins/" is <<"api","coins","">>.                                  *)
(***************************************************************************)
Methods == {"GET", "PUT", "POST", "DELETE", "OPTIONS"}

UserIds == {"u1"}

GenTypes == {"animation", "vfx", "script", "ui", "bogus", "add"}

Paths ==
  {<<"test">>, <<"add">>, <<"api", "coins">>, <<"api", "coins", "">>}
    \cup {<<"api", "coins", u>> : u \in UserIds}
    \cup {<<"api", "coins", u, "add">> : u \in UserIds}
    \cup {<<"api", "generate", t>> : t \in GenTypes}

\* pathname.split('/')[3]; a missing element is undefined
NoKey == "undefined"

Segment3(p) == IF Len(p) >= 3 THEN p[3] ELSE NoKey

\* !userId
NoUserId(u) == u = NoKey \/ u = ""

\* pathname.startsWith('/api/coins/')
StartsWithCoins(p) == Len(p) >= 3 /\ p[1] = "api" /\ p[2] = "coins"

\* pathname.startsWith('/api/generate/')
StartsWithGenerate(p) == Len(p) >= 3 /\ p[1] = "api" /\ p[2] = "generate"

\* pathname.endsWith('/add')
EndsWithAdd(p) == Len(p) >= 1 /\ p[Len(p)] = "add"

(***************************************************************************)
(* Request bodies: text that is not JSON, the JSON value null, a JSON      *)
(* value without properties (number, string, array), or a JSON object.     *)
(***************************************************************************)
Body(k, c, a, sp, p, rig) ==
  [k |-> k, coins |-> c, amount |-> a, systemPrompt |-> sp, prompt |-> p, rigType |-> rig]

BadJson == Body("invalid", Undefined, Undefined, Undefined, Undefined, Undefined)

JsonNull == Body("null", Undefined, Undefined, Undefined, Undefined, Undefined)

JsonScalar == Body("scalar", Undefined, Undefined, Undefined, Undefined, Undefined)

\* the values of the coins property sent by clients
CoinVals == {Undefined, Num(0 - 1, 0), Num(0, 0), Num(100, 1), Str(<<"a">>)}

\* the values of the amount property sent by clients
AmountVals == {Undefined, Num(0 - 101, 0), Num(0, 0), Num(0, 1), Str(<<"a">>)}

CoinBodies ==
  {BadJson, JsonNull, JsonScalar}
    \cup {Body("object", c, Undefined, Undefined, Undefined, Undefined) : c \in CoinVals}

AmountBodies ==
  {BadJson, JsonNull, JsonScalar}
    \cup {Body("object", Undefined, a, Undefined, Undefined, Undefined) : a \in AmountVals}

\* JSON.parse(body) throws
ParseError(b) == b.k = "invalid"

\* reading a property of null throws a TypeError, which parseBody's own
\* try/catch turns into a second call callback(err)
PropertyThrows(b) == b.k = "null"

(***************************************************************************)
(* Vendor content: the value of data.choices?.[0]?.message?.content, and   *)
(* the JSON documents it may hold.                                         *)
(***************************************************************************)
R15_PARTS ==
  <<"Root", "Waist", "Neck", "LeftShoulder", "LeftElbow", "LeftWrist",
    "RightShoulder", "RightElbow", "RightWrist", "LeftHip", "LeftKnee",
    "LeftAnkle", "RightHip", "RightKnee", "RightAnkle">>

R6_PARTS == <<"Torso", "Head", "Left Arm", "Right Arm", "Left Leg", "Right Leg">>

Range(q) == {q[i] : i \in DOMAIN q}

\* a rot property: missing, not an array, or an array of elements
Rot(k, items) == [k |-> k, items |-> items]

\* a joint: a falsy value, a truthy value that is no object, or an object
Joint(k, rot, extra) == [k |-> k, rot |-> rot, extra |-> extra]

\* a parts property: missing, null, a value without properties, or an object
Parts(k, joints) == [k |-> k, joints |-> joints]

\* a keyframe: null, a value without properties, or an object; time is
\* "missing", "ok" (a number >= 0), "negative" or "string"
Keyframe(k, time, parts, extra) == [k |-> k, time |-> time, parts |-> parts, extra |-> extra]

\* a keyframes property: missing (or falsy), truthy but no array, or an array
Keyframes(k, items) == [k |-> k, items |-> items]

\* a parsed JSON document: null, a value without properties, or an object
Doc(k, keyframes, extra) == [k |-> k, keyframes |-> keyframes, extra |-> extra]

NoDoc == Doc("none", Keyframes("missing", <<>>), FALSE)

\* content: undefined, "", whitespace, text that is not JSON, or JSON text
Content(k, doc) == [k |-> k, doc |-> doc]

NoContent == Content("undefined", NoDoc)

\* number of keyframes in the documents the vendor returns
MaxKeyframes == 1

RequiredParts(rigType) == IF rigType = Str(<<"r15">>) THEN R15_PARTS ELSE R6_PARTS

GoodRot == Rot("array", <<"number", "number", "number">>)

GoodJoint == Joint("object", GoodRot, FALSE)

GoodParts(names) == Parts("object", [p \in names |-> GoodJoint])

GoodKeyframe(names) == Keyframe("object", "ok", GoodParts(names), FALSE)

\* the joints a defective document gets wrong
BadJoints ==
  {Joint("falsy", Rot("missing", <<>>), FALSE),
   Joint("scalar", Rot("missing", <<>>), FALSE),
   Joint("object", Rot("missing", <<>>), FALSE),
   Joint("object", Rot("notarray", <<>>), FALSE),
   Joint("object", Rot("array", <<"number", "number">>), FALSE),
   Joint("object", Rot("array", <<"number", "number", "number", "number">>), FALSE),
   Joint("object", Rot("array", <<"number", "string", "number">>), FALSE),
   Joint("object", GoodRot, TRUE)}

\* the keyframes that differ from a good keyframe of the rig in one place
BadKeyframes(names, first) ==
  {Keyframe("null", "missing", Parts("missing", <<>>), FALSE),
   Keyframe("scalar", "missing", Parts("missing", <<>>), FALSE),
   Keyframe("object", "ok", GoodParts(names), TRUE)}
    \cup {Keyframe("object", t, GoodParts(names), FALSE) : t \in {"missing", "negative", "string"}}
    \cup {Keyframe("object", "ok", Parts(k, <<>>), FALSE) : k \in {"missing", "null", "scalar"}}
    \cup {Keyframe("object", "ok", GoodParts(names \ {first}), FALSE),
          Keyframe("object", "ok", GoodParts(names \cup {"Tail"}), FALSE)}
    \cup {Keyframe("object", "ok",
                   Parts("object", [p \in names |-> IF p = first THEN j ELSE GoodJoint]), FALSE) :
            j \in BadJoints}

\* the sequences of n good keyframes, and those ending in a defective one
RECURSIVE GoodItems(_, _)
GoodItems(names, n) == IF n = 0 THEN <<>> ELSE <<GoodKeyframe(names)>> \o GoodItems(names, n - 1)

RigDocs(parts) ==
  LET names == Range(parts)
  IN {Doc("object", Keyframes("array", GoodItems(names, n)), x) :
        n \in 0..MaxKeyframes, x \in BOOLEAN}
       \cup {Doc("object", Keyframes("array", GoodItems(names, n - 1) \o <<kf>>), FALSE) :
               n \in 1..MaxKeyframes, kf \in BadKeyframes(names, parts[1])}

VendorDocs ==
  {Doc("null", Keyframes("missing", <<>>), FALSE),
   Doc("scalar", Keyframes("missing", <<>>), FALSE),
   Doc("object", Keyframes("missing", <<>>), FALSE),
   Doc("object", Keyframes("notarray", <<>>), FALSE)}
    \cup RigDocs(R15_PARTS) \cup RigDocs(R6_PARTS)

\* content that is no JSON text
TextContents ==
  {NoContent, Content("empty", NoDoc), Content("blank", NoDoc), Content("text", NoDoc)}

VendorContents == TextContents \cup {Content("json", d) : d \in VendorDocs}

\* what a vendor call comes to: fetch or response.json() rejects, a non-OK
\* status, or an OK status with some content
Vendor(k, content, usage) == [k |-> k, content |-> content, usage |-> usage]

\* data.usage: missing, or the token counts of the call
UsageVals == {Undefined, Num(7, 0), Num(9, 0)}

VendorOutcomes(contents) ==
  {Vendor("throw", NoContent, Undefined), Vendor("error", NoContent, Undefined)}
    \cup {Vendor("ok", c, u) : c \in contents, u \in UsageVals}

\* what is kept of the vendor call that settled last for the request in
\* hand: how it settled, the kind of content and the usage it brought
Settled(v) == [k |-> v.k, content |-> v.content.k, usage |-> v.usage]

NotSettled == [k |-> "", content |-> "", usage |-> Undefined]

(***************************************************************************)
(* Responses: what sendJSON(res, statusCode, data) sends.                  *)
(***************************************************************************)
Reply(status, error, coins, previous, model, data, usage) ==
  [status |-> status, error |-> error, coins |-> coins, previous |-> previous,
   model |-> model, data |-> data, usage |-> usage]

CoinReply(status, error, coins, previous) ==
  Reply(status, error, coins, previous, "", NoContent, Undefined)

ErrorReply(status, error) == CoinReply(status, error, Undefined, Undefined)

\* the success response of a generation request
GenReply(model, data, usage) == Reply(200, "", Undefined, Undefined, model, data, usage)

NoReply == ErrorReply(0, "")

Request(m, p, b) == [method |-> m, path |-> p, body |-> b]

NoRequest == Request("", <<>>, BadJson)

\* the generation request awaiting its vendor call, with the locals it holds
Gen(pc, type, body, validation) ==
  [pc |-> pc, type |-> type, body |-> body, validation |-> validation]

\* the result of validateAnimation
Validation(valid, error) == [valid |-> valid, error |-> error]

Valid == Validation(TRUE, <<>>)

Idle == Gen("idle", "", BadJson, Valid)

\* the body of a vendor call
Call(model, system, user, format) ==
  [model |-> model, system |-> system, user |-> user, format |-> format]

\* what a step of the generation handler leaves
GenOutcome(r, g, c) == [res |-> r, gen |-> g, calls |-> c]

\* the outcome of a handler: the ledger it leaves and the response it sends
Outcome(m, r) == [userCoins |-> m, res |-> r]

(***************************************************************************)
(* v4.1, index.js lines 239-663: routing and the coin ledger.              *)
(***************************************************************************)
\* the if-chain of the request handler, first match wins
Route41(m, p) ==
  IF m = "OPTIONS" THEN "options"
  ELSE IF p = <<"test">> /\ m = "GET" THEN "test"
  ELSE IF StartsWithCoins(p) /\ m = "GET" THEN "get"
  ELSE IF StartsWithCoins(p) /\ ~EndsWithAdd(p) /\ m = "PUT" THEN "put"
  ELSE IF EndsWithAdd(p) /\ m = "POST" THEN "add"
  ELSE IF StartsWithGenerate(p) /\ m = "POST" THEN "generate"
  ELSE "notfound"

\* GetCoins41 creating the entry before it looks at the user id
GetCoins41CreatingFirst(m, userId) ==
  LET m1 == IF ~Has(m, userId) THEN Set(m, userId, STARTING_COINS) ELSE m
  IN IF NoUserId(userId)
     THEN Outcome(m1, ErrorReply(400, "User ID required"))
     ELSE Outcome(m1, CoinReply(200, "", Get(m1, userId), Undefined))

GetCoins41(m, userId) ==
  IF NoUserId(userId)
  THEN Outcome(m, ErrorReply(400, "User ID required"))
  ELSE LET m1 == IF ~Has(m, userId) THEN Set(m, userId, STARTING_COINS) ELSE m
       IN Outcome(m1, CoinReply(200, "", Get(m1, userId), Undefined))

\* UpdateCoins41 dropping the entry of a user whose balance is set to 0
UpdateCoins41Deleting(m, userId, body) ==
  IF NoUserId(userId)
  THEN Outcome(m, ErrorReply(400, "User ID required"))
  ELSE IF ParseError(body) \/ PropertyThrows(body)
  THEN Outcome(m, ErrorReply(400, "Invalid JSON"))
  ELSE IF TypeOf(body.coins) # "number" \/ LtZero(body.coins)
  THEN Outcome(m, ErrorReply(400, "Invalid coin amount"))
  ELSE LET oldBalance == Or(Get(m, userId), STARTING_COINS)
       IN Outcome(IF Truthy(body.coins) THEN Set(m, userId, body.coins)
                  ELSE [x \in (DOMAIN m) \ {userId} |-> m[x]],
                  CoinReply(200, "", body.coins, oldBalance))

UpdateCoins41(m, userId, body) ==
  IF NoUserId(userId)
  THEN Outcome(m, ErrorReply(400, "User ID required"))
  ELSE IF ParseError(body) \/ PropertyThrows(body)
  THEN Outcome(m, ErrorReply(400, "Invalid JSON"))
  ELSE IF TypeOf(body.coins) # "number" \/ LtZero(body.coins)
  THEN Outcome(m, ErrorReply(400, "Invalid coin amount"))
  ELSE LET oldBalance == Or(Get(m, userId), STARTING_COINS)
       IN Outcome(Set(m, userId, body.coins), CoinReply(200, "", body.coins, oldBalance))

\* AddCoins41 without the starting balance for a user that has no entry
AddCoins41NoDefault(m, userId, body) ==
  IF NoUserId(userId)
  THEN Outcome(m, ErrorReply(400, "User ID required"))
  ELSE IF ParseError(body) \/ PropertyThrows(body)
  THEN Outcome(m, ErrorReply(400, "Invalid JSON"))
  ELSE IF TypeOf(body.amount) # "number" \/ LeZero(body.amount)
  THEN Outcome(m, ErrorReply(400, "Invalid amount"))
  ELSE LET current == Or(Get(m, userId), Num(0, 0))
           newTotal == Plus(current, body.amount)
       IN Outcome(Set(m, userId, newTotal), CoinReply(200, "", newTotal, current))

AddCoins41(m, userId, body) ==
  IF NoUserId(userId)
  THEN Outcome(m, ErrorReply(400, "User ID required"))
  ELSE IF ParseError(body) \/ PropertyThrows(body)
  THEN Outcome(m, ErrorReply(400, "Invalid JSON"))
  ELSE IF TypeOf(body.amount) # "number" \/ LeZero(body.amount)
  THEN Outcome(m, ErrorReply(400, "Invalid amount"))
  ELSE LET current == Or(Get(m, userId), STARTING_COINS)
           newTotal == Plus(current, body.amount)
       IN Outcome(Set(m, userId, newTotal), CoinReply(200, "", newTotal, current))

\* every stored value is within the bounds of the model
LedgerInBounds(m) == \A u \in DOMAIN m : InBounds(m[u])

Options41 ==
  /\ rev = "v4.1"
  /\ gen.pc = "idle"
  /\ \E p \in Paths :
       /\ Route41("OPTIONS", p) = "options"
       /\ req' = Request("OPTIONS", p, BadJson)
       /\ res' = ErrorReply(204, "")
  /\ calls' = <<>>
  /\ settled' = NotSettled
  /\ UNCHANGED <<limVars, rev, apiKey, userCoins, gen, pgVars, eqVars>>

Test41 ==
  /\ rev = "v4.1"
  /\ gen.pc = "idle"
  /\ \E m \in Methods, p \in Paths :
       /\ Route41(m, p) = "test"
       /\ req' = Request(m, p, BadJson)
       /\ res' = ErrorReply(200, "")
  /\ calls' = <<>>
  /\ settled' = NotSettled
  /\ UNCHANGED <<limVars, rev, apiKey, userCoins, gen, pgVars, eqVars>>

GetCoinsRequest41 ==
  /\ rev = "v4.1"
  /\ gen.pc = "idle"
  /\ \E m \in Methods, p \in Paths :
       /\ Route41(m, p) = "get"
       /\ LET out == GetCoins41(userCoins, Segment3(p))
          IN /\ req' = Request(m, p, BadJson)
             /\ userCoins' = out.userCoins
             /\ res' = out.res
  /\ calls' = <<>>
  /\ settled' = NotSettled
  /\ UNCHANGED <<limVars, rev, apiKey, gen, pgVars, eqVars>>

UpdateCoinsRequest41 ==
  /\ rev = "v4.1"
  /\ gen.pc = "idle"
  /\ \E m \in Methods, p \in Paths, b \in CoinBodies :
       /\ Route41(m, p) = "put"
       /\ LET out == UpdateCoins41(userCoins, Segment3(p), b)
          IN /\ req' = Request(m, p, b)
             /\ userCoins' = out.userCoins
             /\ res' = out.res
  /\ calls' = <<>>
  /\ settled' = NotSettled
  /\ UNCHANGED <<limVars, rev, apiKey, gen, pgVars, eqVars>>

AddCoinsRequest41 ==
  /\ rev = "v4.1"
  /\ gen.pc = "idle"
  /\ \E m \in Methods, p \in Paths, b \in AmountBodies :
       /\ Route41(m, p) = "add"
       /\ LET out == AddCoins41(userCoins, Segment3(p), b)
          IN /\ LedgerInBounds(out.userCoins)
             /\ req' = Request(m, p, b)
             /\ userCoins' = out.userCoins
             /\ res' = out.res
  /\ calls' = <<>>
  /\ settled' = NotSettled
  /\ UNCHANGED <<limVars, rev, apiKey, gen, pgVars, eqVars>>

NotFound41 ==
  /\ rev = "v4.1"
  /\ gen.pc = "idle"
  /\ \E m \in Methods, p \in Paths :
       /\ Route41(m, p) = "notfound"
       /\ req' = Request(m, p, BadJson)
       /\ res' = ErrorReply(404, "Endpoint not found")
  /\ calls' = <<>>
  /\ settled' = NotSettled
  /\ UNCHANGED <<limVars, rev, apiKey, userCoins, gen, pgVars, eqVars>>

(***************************************************************************)
(* v4.1, index.js lines 415-599: the generation proxy.                     *)
(***************************************************************************)
PromptVals == {Str(<<>>), Str(<<"prompt">>)}

SystemPromptVals == {Undefined, Str(<<"system">>)}

RigVals == {Undefined, Str(<<"r15">>), Str(<<"r6">>)}

GenBodies(rigs) ==
  {BadJson, JsonNull, JsonScalar}
    \cup {Body("object", Undefined, Undefined, sp, p, rig) :
            sp \in SystemPromptVals, p \in PromptVals, rig \in rigs}

validTypes == {"animation", "vfx", "script", "ui"}

\* !content || content.trim() === ''
EmptyContent(c) == c.k \in {"undefined", "empty", "blank"}

\* the handler up to its first await: validation, then the vendor call
Generate41(type, body, key) ==
  IF type \notin validTypes
  THEN GenOutcome(ErrorReply(400, "Invalid generation type"), Idle, <<>>)
  ELSE IF ParseError(body)
  THEN GenOutcome(ErrorReply(400, "Invalid JSON in request body"), Idle, <<>>)
  ELSE IF ~key
  THEN GenOutcome(ErrorReply(500, "OpenAI API key not configured on server"), Idle, <<>>)
  ELSE IF PropertyThrows(body)
  THEN GenOutcome(NoReply, Idle, <<>>)
  ELSE IF ~Truthy(body.systemPrompt) \/ ~Truthy(body.prompt)
  THEN GenOutcome(ErrorReply(400, "Missing required fields: systemPrompt and prompt"), Idle, <<>>)
  ELSE GenOutcome(NoReply, Gen("primary", type, body, Valid),
                  <<Call("gpt-5-nano", Plus(body.systemPrompt, Str(<<"IMPORTANT">>)),
                         body.prompt, "json_object")>>)

\* the handler after the vendor call has settled
Respond41(v) ==
  IF v.k = "throw" THEN ErrorReply(500, "error.message")
  ELSE IF v.k = "error" THEN ErrorReply(500, "OpenAI API error")
  ELSE IF EmptyContent(v.content)
  THEN ErrorReply(500, "Model used all tokens for reasoning with no visible output")
  ELSE GenReply("gpt-5-nano", v.content,
                IF Truthy(v.usage) THEN v.usage ELSE Num(0, 0))

GenerateRequest41 ==
  /\ rev = "v4.1"
  /\ gen.pc = "idle"
  /\ \E m \in Methods, p \in Paths, b \in GenBodies({Undefined}) :
       /\ Route41(m, p) = "generate"
       /\ LET out == Generate41(Segment3(p), b, apiKey)
          IN /\ req' = Request(m, p, b)
             /\ res' = out.res
             /\ gen' = out.gen
             /\ calls' = out.calls
  /\ settled' = NotSettled
  /\ UNCHANGED <<limVars, rev, apiKey, userCoins, pgVars, eqVars>>

VendorReturns41 ==
  /\ rev = "v4.1"
  /\ gen.pc = "primary"
  /\ \E v \in VendorOutcomes(TextContents \cup {Content("json", Doc("object", Keyframes("array", <<>>), FALSE))}) :
       /\ req' = Request("POST", <<"api", "generate", gen.type>>, gen.body)
       /\ res' = Respond41(v)
       /\ gen' = Idle
       /\ settled' = Settled(v)
  /\ UNCHANGED <<limVars, rev, apiKey, userCoins, calls, pgVars, eqVars>>

Next41 ==
  \/ Options41
  \/ Test41
  \/ GetCoinsRequest41
  \/ UpdateCoinsRequest41
  \/ AddCoinsRequest41
  \/ GenerateRequest41
  \/ VendorReturns41
  \/ NotFound41

(***************************************************************************)
(* v7.0, part_001: routing and the coin ledger.                            *)
(***************************************************************************)
Route70(m, p) ==
  IF m = "OPTIONS" THEN "options"
  ELSE IF p = <<"test">> /\ m = "GET" THEN "test"
  ELSE IF StartsWithCoins(p) /\ m = "GET" THEN "get"
  ELSE IF StartsWithCoins(p) /\ ~EndsWithAdd(p) /\ m = "PUT" THEN "put"
  ELSE IF EndsWithAdd(p) /\ m = "POST" THEN "add"
  ELSE IF StartsWithGenerate(p) /\ m = "POST" THEN "generate"
  ELSE "notfound"

GetCoins70(m, userId) ==
  IF NoUserId(userId)
  THEN Outcome(m, ErrorReply(400, "User ID required"))
  ELSE LET m1 == IF ~Has(m, userId) THEN Set(m, userId, STARTING_COINS) ELSE m
       IN Outcome(m1, CoinReply(200, "", Get(m1, userId), Undefined))

UpdateCoins70(m, userId, body) ==
  IF NoUserId(userId)
  THEN Outcome(m, ErrorReply(400, "User ID required"))
  ELSE IF ParseError(body) \/ PropertyThrows(body)
  THEN Outcome(m, ErrorReply(400, "Invalid JSON"))
  ELSE IF TypeOf(body.coins) # "number" \/ LtZero(body.coins)
  THEN Outcome(m, ErrorReply(400, "Invalid coin amount"))
  ELSE LET oldBalance == Or(Get(m, userId), STARTING_COINS)
       IN Outcome(Set(m, userId, body.coins), CoinReply(200, "", body.coins, oldBalance))

AddCoins70(m, userId, body) ==
  IF NoUserId(userId)
  THEN Outcome(m, ErrorReply(400, "User ID required"))
  ELSE IF ParseError(body) \/ PropertyThrows(body)
  THEN Outcome(m, ErrorReply(400, "Invalid JSON"))
  ELSE IF TypeOf(body.amount) # "number" \/ LeZero(body.amount)
  THEN Outcome(m, ErrorReply(400, "Invalid amount"))
  ELSE LET current == Or(Get(m, userId), STARTING_COINS)
           newTotal == Plus(current, body.amount)
       IN Outcome(Set(m, userId, newTotal), CoinReply(200, "", newTotal, current))

Options70 ==
  /\ rev = "v7.0"
  /\ gen.pc = "idle"
  /\ \E p \in Paths :
       /\ Route70("OPTIONS", p) = "options"
       /\ req' = Request("OPTIONS", p, BadJson)
       /\ res' = ErrorReply(204, "")
  /\ calls' = <<>>
  /\ settled' = NotSettled
  /\ UNCHANGED <<limVars, rev, apiKey, userCoins, gen, pgVars, eqVars>>

Test70 ==
  /\ rev = "v7.0"
  /\ gen.pc = "idle"
  /\ \E m \in Methods, p \in Paths :
       /\ Route70(m, p) = "test"
       /\ req' = Request(m, p, BadJson)
       /\ res' = ErrorReply(200, "")
  /\ calls' = <<>>
  /\ settled' = NotSettled
  /\ UNCHANGED <<limVars, rev, apiKey, userCoins, gen, pgVars, eqVars>>

GetCoinsRequest70 ==
  /\ rev = "v7.0"
  /\ gen.pc = "idle"
  /\ \E m \in Methods, p \in Paths :
       /\ Route70(m, p) = "get"
       /\ LET out == GetCoins70(userCoins, Segment3(p))
          IN /\ req' = Request(m, p, BadJson)
             /\ userCoins' = out.userCoins
             /\ res' = out.res
  /\ calls' = <<>>
  /\ settled' = NotSettled
  /\ UNCHANGED <<limVars, rev, apiKey, gen, pgVars, eqVars>>

UpdateCoinsRequest70 ==
  /\ rev = "v7.0"
  /\ gen.pc = "idle"
  /\ \E m \in Methods, p \in Paths, b \in CoinBodies :
       /\ Route70(m, p) = "put"
       /\ LET out == UpdateCoins70(userCoins, Segment3(p), b)
          IN /\ req' = Request(m, p, b)
             /\ userCoins' = out.userCoins
             /\ res' = out.res
  /\ calls' = <<>>
  /\ settled' = NotSettled
  /\ UNCHANGED <<limVars, rev, apiKey, gen, pgVars, eqVars>>

AddCoinsRequest70 ==
  /\ rev = "v7.0"
  /\ gen.pc = "idle"
  /\ \E m \in Methods, p \in Paths, b \in AmountBodies :
       /\ Route70(m, p) = "add"
       /\ LET out == AddCoins70(userCoins, Segment3(p), b)
          IN /\ LedgerInBounds(out.userCoins)
             /\ req' = Request(m, p, b)
             /\ userCoins' = out.userCoins
             /\ res' = out.res
  /\ calls' = <<>>
  /\ settled' = NotSettled
  /\ UNCHANGED <<limVars, rev, apiKey, gen, pgVars, eqVars>>

NotFound70 ==
  /\ rev = "v7.0"
  /\ gen.pc = "idle"
  /\ \E m \in Methods, p \in Paths :
       /\ Route70(m, p) = "notfound"
       /\ req' = Request(m, p, BadJson)
       /\ res' = ErrorReply(404, "Endpoint not found")
  /\ calls' = <<>>
  /\ settled' = NotSettled
  /\ UNCHANGED <<limVars, rev, apiKey, userCoins, gen, pgVars, eqVars>>

(***************************************************************************)
(* v7.0, part_001: schemas, validation, retry and the generation handler.  *)
(***************************************************************************)
\* $defs.joint: an object whose only property is rot, an array of exactly
\* three numbers
JointSchema(j) ==
  /\ j.k = "object"
  /\ ~j.extra
  /\ j.rot.k = "array"
  /\ Len(j.rot.items) = 3
  /\ \A i \in 1..Len(j.rot.items) : j.rot.items[i] = "number"

\* items of keyframes: time >= 0 and parts holding exactly the joints named
KeyframeSchema(kf, names) ==
  /\ kf.k = "object"
  /\ ~kf.extra
  /\ kf.time = "ok"
  /\ kf.parts.k = "object"
  /\ DOMAIN kf.parts.joints = names
  /\ \A p \in names : JointSchema(kf.parts.joints[p])

R15_ANIMATION_SCHEMA(doc) ==
  /\ doc.k = "object"
  /\ ~doc.extra
  /\ doc.keyframes.k = "array"
  /\ \A i \in 1..Len(doc.keyframes.items) :
       KeyframeSchema(doc.keyframes.items[i], Range(R15_PARTS))

R6_ANIMATION_SCHEMA(doc) ==
  /\ doc.k = "object"
  /\ ~doc.extra
  /\ doc.keyframes.k = "array"
  /\ \A i \in 1..Len(doc.keyframes.items) :
       KeyframeSchema(doc.keyframes.items[i], Range(R6_PARTS))

\* rigType.toUpperCase()
ToUpperCase(v) ==
  Str([i \in DOMAIN v.s |-> IF v.s[i] = "r15" THEN "R15" ELSE IF v.s[i] = "r6" THEN "R6" ELSE v.s[i]])

generateSmartPrompt(description, rigType) ==
  LET example == IF rigType = Str(<<"r15">>) THEN "EXAMPLE - R15 wave" ELSE "EXAMPLE - R6 wave"
  IN Str(<<example, "GENERATE">> \o ToUpperCase(rigType).s \o <<"ANIMATION", "Action:">>
           \o description.s \o <<"Output: VALID JSON ONLY">>)

\* the inner loop of validateAnimation over requiredParts, from part i on
RECURSIVE ValidateParts(_, _, _)
ValidateParts(joints, requiredParts, i) ==
  IF i > Len(requiredParts) THEN Valid
  ELSE LET part == requiredParts[i]
       IN IF part \notin DOMAIN joints \/ joints[part].k = "falsy"
          THEN Validation(FALSE, <<"Missing part", part>>)
          ELSE IF joints[part].k # "object" \/ joints[part].rot.k # "array"
                  \/ Len(joints[part].rot.items) # 3
          THEN Validation(FALSE, <<"Invalid rotation for", part>>)
          ELSE ValidateParts(joints, requiredParts, i + 1)

\* the outer loop of validateAnimation over parsed.keyframes, from item i on;
\* reading parts of null or a part of undefined throws, which the catch
\* turns into an invalid result
RECURSIVE ValidateKeyframes(_, _, _)
ValidateKeyframes(items, requiredParts, i) ==
  IF i > Len(items) THEN Valid
  ELSE LET kf == items[i]
       IN IF kf.k = "null" \/ (kf.k = "object" /\ kf.parts.k \in {"missing", "null"})
             \/ (kf.k = "scalar")
          THEN Validation(FALSE, <<"e.message">>)
          ELSE IF kf.parts.k = "scalar"
          THEN Validation(FALSE, <<"Missing part", requiredParts[1]>>)
          ELSE LET v == ValidateParts(kf.parts.joints, requiredParts, 1)
               IN IF v.valid THEN ValidateKeyframes(items, requiredParts, i + 1) ELSE v

validateAnimation(jsonStr, rigType) ==
  IF jsonStr.k # "json" \/ jsonStr.doc.k = "null"
  THEN Validation(FALSE, <<"e.message">>)
  ELSE IF jsonStr.doc.k = "scalar" \/ jsonStr.doc.keyframes.k # "array"
  THEN Validation(FALSE, <<"No keyframes array">>)
  ELSE ValidateKeyframes(jsonStr.doc.keyframes.items, RequiredParts(rigType), 1)

SchemaName(rigType) ==
  IF rigType = Str(<<"r15">>) THEN "R15_ANIMATION_SCHEMA" ELSE "R6_ANIMATION_SCHEMA"

\* retryWithMini asking a smaller model than the one it reports
retryWithMiniCallingMini(userPrompt, rigType) ==
  Call("gpt-5-mini", Undefined, Plus(userPrompt, Str(<<"FIX">>)), SchemaName(rigType))

\* the request body that retryWithMini sends
retryWithMini(userPrompt, rigType) ==
  Call("gpt-5.1", Undefined, Plus(userPrompt, Str(<<"FIX">>)), SchemaName(rigType))

\* const rigType = body.rigType || 'r15'
RigType(body) == Or(body.rigType, Str(<<"r15">>))

UserPrompt70(type, body) ==
  IF type = "animation" THEN generateSmartPrompt(body.prompt, RigType(body)) ELSE body.prompt

\* the handler up to its first await: validation, then the primary call
Generate70(type, body, key) ==
  IF type \notin validTypes
  THEN GenOutcome(ErrorReply(400, "Invalid generation type"), Idle, <<>>)
  ELSE IF ParseError(body)
  THEN GenOutcome(ErrorReply(400, "Invalid JSON in request body"), Idle, <<>>)
  ELSE IF ~key
  THEN GenOutcome(ErrorReply(500, "OpenAI API key not configured on server"), Idle, <<>>)
  ELSE IF PropertyThrows(body)
  THEN GenOutcome(NoReply, Idle, <<>>)
  ELSE IF ~Truthy(body.prompt) \/ ~Truthy(body.systemPrompt)
  THEN GenOutcome(ErrorReply(400, "Missing required fields: prompt and systemPrompt"), Idle, <<>>)
  ELSE GenOutcome(NoReply, Gen("primary", type, body, Valid),
                  <<Call("gpt-5.1", body.systemPrompt, UserPrompt70(type, body),
                         IF type = "animation" THEN SchemaName(RigType(body)) ELSE "none")>>)

\* from the empty-content check to the success response; reading
\* usage.total_tokens of a missing usage and JSON.parse of text that is not
\* JSON throw into the outer catch
Finish70(content, usage, model) ==
  IF EmptyContent(content) THEN ErrorReply(500, "Model returned empty response")
  ELSE IF usage = Undefined \/ content.k # "json" THEN ErrorReply(500, "error.message")
  ELSE GenReply(model, content, usage)

\* PrimaryReturns70 falling back to the retry call when the vendor refuses
\* the primary call of an animation request
PrimaryReturns70RetryingOnError(g, cs, v) ==
  IF v.k = "throw" THEN GenOutcome(ErrorReply(500, "error.message"), Idle, cs)
  ELSE LET validation == IF v.k = "error" THEN Validation(FALSE, <<"e.message">>)
                         ELSE validateAnimation(v.content, RigType(g.body))
       IN IF g.type = "animation" /\ ~validation.valid
          THEN GenOutcome(NoReply, Gen("retry", g.type, g.body, validation),
                          Append(cs, retryWithMini(UserPrompt70(g.type, g.body), RigType(g.body))))
          ELSE IF v.k = "error" THEN GenOutcome(ErrorReply(500, "OpenAI API error"), Idle, cs)
          ELSE GenOutcome(Finish70(v.content, v.usage, "gpt-5.1"), Idle, cs)

\* the handler after the primary call has settled
PrimaryReturns70(g, cs, v) ==
  IF v.k = "throw" THEN GenOutcome(ErrorReply(500, "error.message"), Idle, cs)
  ELSE IF v.k = "error" THEN GenOutcome(ErrorReply(500, "OpenAI API error"), Idle, cs)
  ELSE LET validation == validateAnimation(v.content, RigType(g.body))
       IN IF g.type = "animation" /\ ~validation.valid
          THEN GenOutcome(NoReply, Gen("retry", g.type, g.body, validation),
                          Append(cs, retryWithMini(UserPrompt70(g.type, g.body), RigType(g.body))))
          ELSE GenOutcome(Finish70(v.content, v.usage, "gpt-5.1"), Idle, cs)

\* RetryReturns70 retrying once more when the retried content fails validation
RetryReturns70Again(g, cs, v) ==
  IF v.k \in {"throw", "error"}
  THEN GenOutcome(ErrorReply(500, "Retry failed: "), Idle, cs)
  ELSE IF ~validateAnimation(v.content, RigType(g.body)).valid
  THEN GenOutcome(NoReply, g,
                  Append(cs, retryWithMini(UserPrompt70(g.type, g.body), RigType(g.body))))
  ELSE GenOutcome(Finish70(v.content, v.usage, "gpt-5.1"), Idle, cs)

\* the handler after the retry call has settled
RetryReturns70(g, cs, v) ==
  IF v.k \in {"throw", "error"}
  THEN GenOutcome(ErrorReply(500, "Retry failed: "), Idle, cs)
  ELSE IF ~validateAnimation(v.content, RigType(g.body)).valid
  THEN GenOutcome(ErrorReply(500, "GPT-5.1 failed validation"), Idle, cs)
  ELSE GenOutcome(Finish70(v.content, v.usage, "gpt-5.1"), Idle, cs)

GenerateRequest70 ==
  /\ rev = "v7.0"
  /\ gen.pc = "idle"
  /\ \E m \in Methods, p \in Paths, b \in GenBodies(RigVals) :
       /\ Route70(m, p) = "generate"
       /\ LET out == Generate70(Segment3(p), b, apiKey)
          IN /\ req' = Request(m, p, b)
             /\ res' = out.res
             /\ gen' = out.gen
             /\ calls' = out.calls
  /\ settled' = NotSettled
  /\ UNCHANGED <<limVars, rev, apiKey, userCoins, pgVars, eqVars>>

PrimaryCallReturns70 ==
  /\ rev = "v7.0"
  /\ gen.pc = "primary"
  /\ \E v \in VendorOutcomes(VendorContents) :
       LET out == PrimaryReturns70(gen, calls, v)
       IN /\ req' = Request("POST", <<"api", "generate", gen.type>>, gen.body)
          /\ res' = out.res
          /\ gen' = out.gen
          /\ calls' = out.calls
          /\ settled' = Settled(v)
  /\ UNCHANGED <<limVars, rev, apiKey, userCoins, pgVars, eqVars>>

RetryCallReturns70 ==
  /\ rev = "v7.0"
  /\ gen.pc = "retry"
  /\ \E v \in VendorOutcomes(VendorContents) :
       LET out == RetryReturns70(gen, calls, v)
       IN /\ req' = Request("POST", <<"api", "generate", gen.type>>, gen.body)
          /\ res' = out.res
          /\ gen' = out.gen
          /\ calls' = out.calls
          /\ settled' = Settled(v)
  /\ UNCHANGED <<limVars, rev, apiKey, userCoins, pgVars, eqVars>>

Next70 ==
  \/ Options70
  \/ Test70
  \/ GetCoinsRequest70
  \/ UpdateCoinsRequest70
  \/ AddCoinsRequest70
  \/ GenerateRequest70
  \/ PrimaryCallReturns70
  \/ RetryCallReturns70
  \/ NotFound70

(***************************************************************************)
(* The requests sent to the unvalidated revisions v4.0 and v3.7.           *)
(***************************************************************************)
LedgerPaths ==
  {<<"test">>, <<"api", "coins">>}
    \cup {<<"api", "coins", u>> : u \in UserIds}
    \cup {<<"api", "coins", u, "add">> : u \in UserIds}

(***************************************************************************)
(* v4.0, index.js lines 1-238: routing and the coin ledger.                *)
(***************************************************************************)
Route40(m, p) ==
  IF m = "OPTIONS" THEN "options"
  ELSE IF p = <<"test">> /\ m = "GET" THEN "test"
  ELSE IF StartsWithCoins(p) /\ m = "GET" THEN "get"
  ELSE IF StartsWithCoins(p) /\ ~EndsWithAdd(p) /\ m = "PUT" THEN "put"
  ELSE IF EndsWithAdd(p) /\ m = "POST" THEN "add"
  ELSE IF StartsWithGenerate(p) /\ m = "POST" THEN "generate"
  ELSE "notfound"

GetCoins40(m, userId) ==
  LET m1 == IF ~Has(m, userId) THEN Set(m, userId, STARTING_COINS) ELSE m
  IN Outcome(m1, CoinReply(200, "", Get(m1, userId), Undefined))

UpdateCoins40(m, userId, body) ==
  IF ParseError(body) \/ PropertyThrows(body)
  THEN Outcome(m, ErrorReply(400, "Invalid JSON"))
  ELSE Outcome(Set(m, userId, body.coins), CoinReply(200, "", body.coins, Undefined))

AddCoins40(m, userId, body) ==
  IF ParseError(body) \/ PropertyThrows(body)
  THEN Outcome(m, ErrorReply(400, "Invalid JSON"))
  ELSE LET current == Or(Get(m, userId), STARTING_COINS)
           newTotal == Plus(current, body.amount)
       IN Outcome(Set(m, userId, newTotal), CoinReply(200, "", newTotal, Undefined))

Options40 ==
  /\ rev = "v4.0"
  /\ gen.pc = "idle"
  /\ \E p \in LedgerPaths :
       /\ Route40("OPTIONS", p) = "options"
       /\ req' = Request("OPTIONS", p, BadJson)
       /\ res' = ErrorReply(204, "")
  /\ calls' = <<>>
  /\ settled' = NotSettled
  /\ UNCHANGED <<limVars, rev, apiKey, userCoins, gen, pgVars, eqVars>>

Test40 ==
  /\ rev = "v4.0"
  /\ gen.pc = "idle"
  /\ \E m \in Methods, p \in LedgerPaths :
       /\ Route40(m, p) = "test"
       /\ req' = Request(m, p, BadJson)
       /\ res' = ErrorReply(200, "")
  /\ calls' = <<>>
  /\ settled' = NotSettled
  /\ UNCHANGED <<limVars, rev, apiKey, userCoins, gen, pgVars, eqVars>>

GetCoinsRequest40 ==
  /\ rev = "v4.0"
  /\ gen.pc = "idle"
  /\ \E m \in Methods, p \in LedgerPaths :
       /\ Route40(m, p) = "get"
       /\ LET out == GetCoins40(userCoins, Segment3(p))
          IN /\ req' = Request(m, p, BadJson)
             /\ userCoins' = out.userCoins
             /\ res' = out.res
  /\ calls' = <<>>
  /\ settled' = NotSettled
  /\ UNCHANGED <<limVars, rev, apiKey, gen, pgVars, eqVars>>

UpdateCoinsRequest40 ==
  /\ rev = "v4.0"
  /\ gen.pc = "idle"
  /\ \E m \in Methods, p \in LedgerPaths, b \in CoinBodies :
       /\ Route40(m, p) = "put"
       /\ LET out == UpdateCoins40(userCoins, Segment3(p), b)
          IN /\ req' = Request(m, p, b)
             /\ userCoins' = out.userCoins
             /\ res' = out.res
  /\ calls' = <<>>
  /\ settled' = NotSettled
  /\ UNCHANGED <<limVars, rev, apiKey, gen, pgVars, eqVars>>

AddCoinsRequest40 ==
  /\ rev = "v4.0"
  /\ gen.pc = "idle"
  /\ \E m \in Methods, p \in LedgerPaths, b \in AmountBodies :
       /\ Route40(m, p) = "add"
       /\ LET out == AddCoins40(userCoins, Segment3(p), b)
          IN /\ LedgerInBounds(out.userCoins)
             /\ req' = Request(m, p, b)
             /\ userCoins' = out.userCoins
             /\ res' = out.res
  /\ calls' = <<>>
  /\ settled' = NotSettled
  /\ UNCHANGED <<limVars, rev, apiKey, gen, pgVars, eqVars>>

NotFound40 ==
  /\ rev = "v4.0"
  /\ gen.pc = "idle"
  /\ \E m \in Methods, p \in LedgerPaths :
       /\ Route40(m, p) = "notfound"
       /\ req' = Request(m, p, BadJson)
       /\ res' = ErrorReply(404, "Not found")
  /\ calls' = <<>>
  /\ settled' = NotSettled
  /\ UNCHANGED <<limVars, rev, apiKey, userCoins, gen, pgVars, eqVars>>

\* the generation requests sent to v4.0 and v3.7
GeneratePaths == {<<"api", "generate", t>> : t \in {"animation", "bogus"}}

\* v4.0: the generation handler up to its await
Generate40(type, body, key) ==
  IF ParseError(body)
  THEN GenOutcome(ErrorReply(400, "Invalid JSON"), Idle, <<>>)
  ELSE IF ~key
  THEN GenOutcome(ErrorReply(500, "API key missing"), Idle, <<>>)
  ELSE IF PropertyThrows(body)
  THEN GenOutcome(NoReply, Idle, <<>>)
  ELSE IF ~Truthy(body.systemPrompt) \/ ~Truthy(body.prompt)
  THEN GenOutcome(ErrorReply(400, "Missing prompts"), Idle, <<>>)
  ELSE GenOutcome(NoReply, Gen("primary", type, body, Valid),
                  <<Call("gpt-5-nano", body.systemPrompt, body.prompt, "json_object")>>)

\* v4.0: the generation handler after the vendor call has settled
Respond40(v) ==
  IF v.k = "throw" THEN ErrorReply(500, "error.message")
  ELSE IF v.k = "error" THEN ErrorReply(500, "OpenAI error")
  ELSE IF EmptyContent(v.content)
  THEN ErrorReply(500, "Empty AI response - model may not support this request")
  ELSE GenReply("", v.content, IF Truthy(v.usage) THEN v.usage ELSE Num(0, 0))

GenerateRequest40 ==
  /\ rev = "v4.0"
  /\ gen.pc = "idle"
  /\ \E p \in GeneratePaths, b \in GenBodies({Undefined}) :
       /\ Route40("POST", p) = "generate"
       /\ LET out == Generate40(Segment3(p), b, apiKey)
          IN /\ req' = Request("POST", p, b)
             /\ res' = out.res
             /\ gen' = out.gen
             /\ calls' = out.calls
  /\ settled' = NotSettled
  /\ UNCHANGED <<limVars, rev, apiKey, userCoins, pgVars, eqVars>>

VendorReturns40 ==
  /\ rev = "v4.0"
  /\ gen.pc = "primary"
  /\ \E v \in VendorOutcomes(TextContents) :
       /\ res' = Respond40(v)
       /\ gen' = Idle
       /\ settled' = Settled(v)
  /\ UNCHANGED <<limVars, rev, apiKey, userCoins, req, calls, pgVars, eqVars>>

Next40 ==
  \/ Options40
  \/ Test40
  \/ GetCoinsRequest40
  \/ UpdateCoinsRequest40
  \/ AddCoinsRequest40
  \/ NotFound40
  \/ GenerateRequest40
  \/ VendorReturns40

(***************************************************************************)
(* v3.7, part_000: routing and the coin ledger.                            *)
(***************************************************************************)
Route37(m, p) ==
  IF m = "OPTIONS" THEN "options"
  ELSE IF p = <<"test">> /\ m = "GET" THEN "test"
  ELSE IF StartsWithCoins(p) /\ m = "GET" THEN "get"
  ELSE IF StartsWithCoins(p) /\ ~EndsWithAdd(p) /\ m = "PUT" THEN "put"
  ELSE IF EndsWithAdd(p) /\ m = "POST" THEN "add"
  ELSE IF StartsWithGenerate(p) /\ m = "POST" THEN "generate"
  ELSE "notfound"

GetCoins37(m, userId) ==
  LET m1 == IF ~Has(m, userId) THEN Set(m, userId, STARTING_COINS) ELSE m
  IN Outcome(m1, CoinReply(200, "", Get(m1, userId), Undefined))

UpdateCoins37(m, userId, body) ==
  IF ParseError(body) \/ PropertyThrows(body)
  THEN Outcome(m, ErrorReply(400, "Invalid JSON"))
  ELSE Outcome(Set(m, userId, body.coins), CoinReply(200, "", body.coins, Undefined))

AddCoins37(m, userId, body) ==
  IF ParseError(body) \/ PropertyThrows(body)
  THEN Outcome(m, ErrorReply(400, "Invalid JSON"))
  ELSE LET current == Or(Get(m, userId), STARTING_COINS)
           newTotal == Plus(current, body.amount)
       IN Outcome(Set(m, userId, newTotal), CoinReply(200, "", newTotal, Undefined))

Options37 ==
  /\ rev = "v3.7"
  /\ gen.pc = "idle"
  /\ \E p \in LedgerPaths :
       /\ Route37("OPTIONS", p) = "options"
       /\ req' = Request("OPTIONS", p, BadJson)
       /\ res' = ErrorReply(204, "")
  /\ calls' = <<>>
  /\ settled' = NotSettled
  /\ UNCHANGED <<limVars, rev, apiKey, userCoins, gen, pgVars, eqVars>>

Test37 ==
  /\ rev = "v3.7"
  /\ gen.pc = "idle"
  /\ \E m \in Methods, p \in LedgerPaths :
       /\ Route37(m, p) = "test"
       /\ req' = Request(m, p, BadJson)
       /\ res' = ErrorReply(200, "")
  /\ calls' = <<>>
  /\ settled' = NotSettled
  /\ UNCHANGED <<limVars, rev, apiKey, userCoins, gen, pgVars, eqVars>>

GetCoinsRequest37 ==
  /\ rev = "v3.7"
  /\ gen.pc = "idle"
  /\ \E m \in Methods, p \in LedgerPaths :
       /\ Route37(m, p) = "get"
       /\ LET out == GetCoins37(userCoins, Segment3(p))
          IN /\ req' = Request(m, p, BadJson)
             /\ userCoins' = out.userCoins
             /\ res' = out.res
  /\ calls' = <<>>
  /\ settled' = NotSettled
  /\ UNCHANGED <<limVars, rev, apiKey, gen, pgVars, eqVars>>

UpdateCoinsRequest37 ==
  /\ rev = "v3.7"
  /\ gen.pc = "idle"
  /\ \E m \in Methods, p \in LedgerPaths, b \in CoinBodies :
       /\ Route37(m, p) = "put"
       /\ LET out == UpdateCoins37(userCoins, Segment3(p), b)
          IN /\ req' = Request(m, p, b)
             /\ userCoins' = out.userCoins
             /\ res' = out.res
  /\ calls' = <<>>
  /\ settled' = NotSettled
  /\ UNCHANGED <<limVars, rev, apiKey, gen, pgVars, eqVars>>

AddCoinsRequest37 ==
  /\ rev = "v3.7"
  /\ gen.pc = "idle"
  /\ \E m \in Methods, p \in LedgerPaths, b \in AmountBodies :
       /\ Route37(m, p) = "add"
       /\ LET out == AddCoins37(userCoins, Segment3(p), b)
          IN /\ LedgerInBounds(out.userCoins)
             /\ req' = Request(m, p, b)
             /\ userCoins' = out.userCoins
             /\ res' = out.res
  /\ calls' = <<>>
  /\ settled' = NotSettled
  /\ UNCHANGED <<limVars, rev, apiKey, gen, pgVars, eqVars>>

NotFound37 ==
  /\ rev = "v3.7"
  /\ gen.pc = "idle"
  /\ \E m \in Methods, p \in LedgerPaths :
       /\ Route37(m, p) = "notfound"
       /\ req' = Request(m, p, BadJson)
       /\ res' = ErrorReply(404, "Not found")
  /\ calls' = <<>>
  /\ settled' = NotSettled
  /\ UNCHANGED <<limVars, rev, apiKey, userCoins, gen, pgVars, eqVars>>

\* v3.7 reads data.choices[0].message.content without ?. and tests each
\* level first: the body may also lack choices, or the first choice its message
ChoiceContents ==
  TextContents \cup {Content("nochoices", NoDoc), Content("nomessage", NoDoc)}

\* v3.7: the generation handler up to its await
Generate37(type, body, key) ==
  IF ParseError(body)
  THEN GenOutcome(ErrorReply(400, "Invalid JSON"), Idle, <<>>)
  ELSE IF ~key
  THEN GenOutcome(ErrorReply(500, "OpenAI API key not configured"), Idle, <<>>)
  ELSE IF PropertyThrows(body)
  THEN GenOutcome(NoReply, Idle, <<>>)
  ELSE IF ~Truthy(body.systemPrompt) \/ ~Truthy(body.prompt)
  THEN GenOutcome(ErrorReply(400, "Missing systemPrompt or prompt"), Idle, <<>>)
  ELSE GenOutcome(NoReply, Gen("primary", type, body, Valid),
                  <<Call("gpt-5-nano", body.systemPrompt, body.prompt, "json_object")>>)

\* the handler as it would be if it tested !content alone, without trim()
Respond37WithoutTrim(v) ==
  IF v.k = "throw" THEN ErrorReply(500, "error.message")
  ELSE IF v.k = "error" THEN ErrorReply(500, "OpenAI API error")
  ELSE IF v.content.k = "nochoices"
  THEN ErrorReply(500, "Invalid API response structure - no choices")
  ELSE IF v.content.k = "nomessage"
  THEN ErrorReply(500, "Invalid API response structure - no message")
  ELSE IF v.content.k \in {"undefined", "empty"}
  THEN ErrorReply(500, "OpenAI returned empty content")
  ELSE GenReply("gpt-5-nano", v.content, IF Truthy(v.usage) THEN v.usage ELSE Num(0, 0))

\* v3.7: the generation handler after the vendor call has settled
Respond37(v) ==
  IF v.k = "throw" THEN ErrorReply(500, "error.message")
  ELSE IF v.k = "error" THEN ErrorReply(500, "OpenAI API error")
  ELSE IF v.content.k = "nochoices"
  THEN ErrorReply(500, "Invalid API response structure - no choices")
  ELSE IF v.content.k = "nomessage"
  THEN ErrorReply(500, "Invalid API response structure - no message")
  ELSE IF EmptyContent(v.content) THEN ErrorReply(500, "OpenAI returned empty content")
  ELSE GenReply("gpt-5-nano", v.content, IF Truthy(v.usage) THEN v.usage ELSE Num(0, 0))

GenerateRequest37 ==
  /\ rev = "v3.7"
  /\ gen.pc = "idle"
  /\ \E p \in GeneratePaths, b \in GenBodies({Undefined}) :
       /\ Route37("POST", p) = "generate"
       /\ LET out == Generate37(Segment3(p), b, apiKey)
          IN /\ req' = Request("POST", p, b)
             /\ res' = out.res
             /\ gen' = out.gen
             /\ calls' = out.calls
  /\ settled' = NotSettled
  /\ UNCHANGED <<limVars, rev, apiKey, userCoins, pgVars, eqVars>>

VendorReturns37 ==
  /\ rev = "v3.7"
  /\ gen.pc = "primary"
  /\ \E v \in VendorOutcomes(ChoiceContents) :
       /\ res' = Respond37(v)
       /\ gen' = Idle
       /\ settled' = Settled(v)
  /\ UNCHANGED <<limVars, rev, apiKey, userCoins, req, calls, pgVars, eqVars>>

Next37 ==
  \/ Options37
  \/ Test37
  \/ GetCoinsRequest37
  \/ UpdateCoinsRequest37
  \/ AddCoinsRequest37
  \/ NotFound37
  \/ GenerateRequest37
  \/ VendorReturns37

(***************************************************************************)
(* PostgreSQL revision, part_002.  The table user_coins maps user_id to    *)
(* coins.  Every pool.query is one atomic statement of the database; the   *)
(* handlers of concurrent requests interleave between their statements.    *)
(***************************************************************************)
Procs == {"a", "b"}

\* the :userId parameters sent by clients; user_id is a BIGINT column
PgUserIds == {"1", "abc"}

IsBigint(u) == u \in {"1"}

\* coins is an INTEGER NOT NULL column: null, text that is no integer and
\* fractional numbers are refused by the statement
IsInteger(v) == v.t = "number" /\ v.f = 0

PgCoinVals == {Undefined, Num(0 - 1, 0), Num(0, 0), Str(<<"a">>)}

PgAmountVals == {Undefined, Num(0, 1), Num(50, 0), Str(<<"a">>)}

PgRequest(op, userId, arg) == [op |-> op, userId |-> userId, arg |-> arg]

\* a request handler: where it stands, its request and the response it sent
PgProc(pc, r, response) == [pc |-> pc, req |-> r, res |-> response]

PgIdle == PgProc("idle", PgRequest("", "", Undefined), NoReply)

\* what a statement leaves: the table and the handler
PgOutcome(t, h) == [table |-> t, proc |-> h]

\* app.get: SELECT coins FROM user_coins WHERE user_id = $1
PgGetSelect(t, r) ==
  IF ~IsBigint(r.userId)
  THEN PgOutcome(t, PgProc("idle", r, ErrorReply(500, "error.message")))
  ELSE IF ~Has(t, r.userId)
  THEN PgOutcome(t, PgProc("insert", r, NoReply))
  ELSE PgOutcome(t, PgProc("idle", r, CoinReply(200, "", t[r.userId], Undefined)))

\* app.get: INSERT INTO user_coins (user_id, coins) VALUES ($1, 100); the
\* primary key refuses a second row for the user
PgGetInsert(t, r) ==
  IF Has(t, r.userId)
  THEN PgOutcome(t, PgProc("idle", r, ErrorReply(500, "error.message")))
  ELSE PgOutcome(Set(t, r.userId, Num(100, 0)),
                 PgProc("idle", r, CoinReply(200, "", Num(100, 0), Undefined)))

\* app.put: INSERT ... ON CONFLICT (user_id) DO UPDATE SET coins = $2
PgPut(t, r) ==
  IF ~IsBigint(r.userId) \/ ~IsInteger(r.arg)
  THEN PgOutcome(t, PgProc("idle", r, ErrorReply(500, "error.message")))
  ELSE PgOutcome(Set(t, r.userId, r.arg), PgProc("idle", r, CoinReply(200, "", r.arg, Undefined)))

\* PgAdd with DO UPDATE SET coins = $2: the amount replaces the balance
PgAddReplacing(t, r) ==
  IF ~IsBigint(r.userId) \/ ~IsInteger(r.arg)
  THEN PgOutcome(t, PgProc("idle", r, ErrorReply(500, "error.message")))
  ELSE PgOutcome(Set(t, r.userId, r.arg), PgProc("idle", r, CoinReply(200, "", r.arg, Undefined)))

\* app.post add: INSERT ... VALUES ($1, $2) ON CONFLICT (user_id)
\* DO UPDATE SET coins = user_coins.coins + $2 RETURNING coins
PgAdd(t, r) ==
  IF ~IsBigint(r.userId) \/ ~IsInteger(r.arg)
  THEN PgOutcome(t, PgProc("idle", r, ErrorReply(500, "error.message")))
  ELSE LET newBalance == IF Has(t, r.userId) THEN Plus(t[r.userId], r.arg) ELSE r.arg
       IN PgOutcome(Set(t, r.userId, newBalance),
                    PgProc("idle", r, CoinReply(200, "", newBalance, Undefined)))

PgGetRequest(p) ==
  /\ pg[p].pc = "idle"
  /\ \E u \in PgUserIds :
       LET out == PgGetSelect(table, PgRequest("get", u, Undefined))
       IN table' = out.table /\ pg' = [pg EXCEPT ![p] = out.proc]
  /\ UNCHANGED <<limVars, httpVars, eqVars>>

PgGetCreates(p) ==
  /\ pg[p].pc = "insert"
  /\ LET out == PgGetInsert(table, pg[p].req)
     IN table' = out.table /\ pg' = [pg EXCEPT ![p] = out.proc]
  /\ UNCHANGED <<limVars, httpVars, eqVars>>

PgPutRequest(p) ==
  /\ pg[p].pc = "idle"
  /\ \E u \in PgUserIds, c \in PgCoinVals :
       LET out == PgPut(table, PgRequest("put", u, c))
       IN table' = out.table /\ pg' = [pg EXCEPT ![p] = out.proc]
  /\ UNCHANGED <<limVars, httpVars, eqVars>>

\* app.post add up to its await: the statement is sent and the handler waits
PgAddRequest(p) ==
  /\ pg[p].pc = "idle"
  /\ \E u \in PgUserIds, a \in PgAmountVals :
       pg' = [pg EXCEPT ![p] = PgProc("add", PgRequest("add", u, a), NoReply)]
  /\ UNCHANGED <<limVars, httpVars, table, fbDocs, fbRes, fbFailed>>

\* the database runs the statement of a waiting add, and the handler answers
PgAddRuns(p) ==
  /\ pg[p].pc = "add"
  /\ LET out == PgAdd(table, pg[p].req)
     IN /\ LedgerInBounds(out.table)
        /\ table' = out.table
        /\ pg' = [pg EXCEPT ![p] = out.proc]
  /\ UNCHANGED <<limVars, httpVars, eqVars>>

NextPg ==
  \E p \in Procs :
    \/ PgGetRequest(p)
    \/ PgGetCreates(p)
    \/ PgPutRequest(p)
    \/ PgAddRequest(p)
    \/ PgAddRuns(p)

(***************************************************************************)
(* v2.1.0, part_004: the ledger kept as documents users/<id>.json of a     *)
(* remote store, run side by side with the in-memory ledger of v3.7 on the *)
(* same series of requests.                                                *)
(***************************************************************************)
EqUserIds == {"1", "2"}

\* the non-negative integer balances set by the clients
EqCoinVals == {Num(0, 0), Num(1, 0), Num(250, 0)}

\* app.get('/api/coins/:userId') of v2.1.0; ok says that axios.get resolved
FirebaseGet(docs, userId, ok) ==
  IF ~ok THEN ErrorReply(500, "error.message")
  ELSE IF ~Has(docs, userId) THEN CoinReply(200, "", Num(100, 0), Undefined)
  ELSE CoinReply(200, "", Or(docs[userId], Num(100, 0)), Undefined)

\* app.put('/api/coins/:userId') of v2.1.0: the response, and the documents
\* after it; ok says that axios.put resolved
FirebasePutReply(coins, ok) ==
  IF TypeOf(coins) # "number" THEN ErrorReply(400, "Invalid coins value")
  ELSE IF ~ok THEN ErrorReply(500, "error.message")
  ELSE CoinReply(200, "", coins, Undefined)

FirebasePutDocs(docs, userId, coins, ok) ==
  IF TypeOf(coins) = "number" /\ ok THEN Set(docs, userId, coins) ELSE docs

BothGet ==
  /\ \E u \in EqUserIds, ok \in BOOLEAN :
       LET out == GetCoins37(userCoins, u)
       IN /\ req' = Request("GET", <<"api", "coins", u>>, BadJson)
          /\ userCoins' = out.userCoins
          /\ res' = out.res
          /\ fbRes' = FirebaseGet(fbDocs, u, ok)
          /\ fbFailed' = (fbFailed \/ ~ok)
  /\ UNCHANGED <<limVars, settled, rev, apiKey, gen, calls, fbDocs, pgVars>>

BothPut ==
  /\ \E u \in EqUserIds, c \in EqCoinVals, ok \in BOOLEAN :
       LET b == Body("object", c, Undefined, Undefined, Undefined, Undefined)
           out == UpdateCoins37(userCoins, u, b)
       IN /\ req' = Request("PUT", <<"api", "coins", u>>, b)
          /\ userCoins' = out.userCoins
          /\ res' = out.res
          /\ fbRes' = FirebasePutReply(c, ok)
          /\ fbDocs' = FirebasePutDocs(fbDocs, u, c, ok)
          /\ fbFailed' = (fbFailed \/ ~ok)
  /\ UNCHANGED <<limVars, settled, rev, apiKey, gen, calls, pgVars>>

NextEq == BothGet \/ BothPut

(***************************************************************************)
(* v2.1.0, part_004 lines 36-205: the generation endpoints.  The four      *)
(* routes differ in the vendor they call (Gemini for animation, vfx and    *)
(* ui, OpenRouter for script); each sends one text and nothing else.       *)
(***************************************************************************)
PromptVals21 == {Undefined, Str(<<"prompt">>), Str(<<"other">>)}

SystemPromptVals21 == {Undefined, Str(<<"system">>), Str(<<"system", "prompt">>)}

VendorModel21(type) ==
  IF type = "script" THEN "google/gemini-2.0-flash-exp:free" ELSE "gemini-2.0-flash-exp"

\* the handler up to its await: the required fields, then the vendor call
Generate21(type, body) ==
  IF ~Truthy(body.prompt) \/ ~Truthy(body.systemPrompt)
  THEN GenOutcome(ErrorReply(400, "Missing required fields"), Idle, <<>>)
  ELSE GenOutcome(NoReply, Gen("primary", type, body, Valid),
                  <<Call(VendorModel21(type), Undefined, body.systemPrompt, "none")>>)

\* the handler after the vendor call has settled; axios rejects on a
\* non-2xx status, so that both failures end in the catch
Respond21(v) ==
  IF v.k \in {"throw", "error"} THEN ErrorReply(500, "error.message")
  ELSE IF v.content.k = "undefined" THEN ErrorReply(500, "Invalid AI response")
  ELSE Reply(200, "", Undefined, Undefined, "", v.content,
             IF Truthy(v.usage) THEN v.usage ELSE Null)

GenerateRequest21 ==
  /\ rev = "v2.1.0"
  /\ gen.pc = "idle"
  /\ \E type \in validTypes, sp \in SystemPromptVals21, p \in PromptVals21 :
       LET b == Body("object", Undefined, Undefined, sp, p, Undefined)
           out == Generate21(type, b)
       IN /\ req' = Request("POST", <<"api", "generate", type>>, b)
          /\ res' = out.res
          /\ gen' = out.gen
          /\ calls' = out.calls
  /\ settled' = NotSettled
  /\ UNCHANGED <<limVars, rev, apiKey, userCoins, pgVars, eqVars>>

VendorReturns21 ==
  /\ rev = "v2.1.0"
  /\ gen.pc = "primary"
  /\ \E v \in VendorOutcomes(TextContents) :
       /\ res' = Respond21(v)
       /\ gen' = Idle
       /\ settled' = Settled(v)
  /\ UNCHANGED <<limVars, rev, apiKey, userCoins, req, calls, pgVars, eqVars>>

Next21 == GenerateRequest21 \/ VendorReturns21

(***************************************************************************)
(* The tiered revision, part_003 lines 14-34: the rate limiter.  The clock *)
(* Date.now() is the variable now, in milliseconds; it moves on by a       *)
(* millisecond or by a minute between calls.  admitted[u] records the      *)
(* times of the calls of user u for which checkRateLimit returned true.    *)
(***************************************************************************)
\* most steps of the clock in a behaviour
MaxTicks == 2

TickSteps == {1, 60000}

LimitUserIds == {"u1"}

UserLimit(count, resetTime) == [count |-> count, resetTime |-> resetTime]

\* checkRateLimit counting the calls it refuses as well
checkRateLimitCountingRefusals(limits, userId, t) ==
  LET userLimit == IF Has(limits, userId) THEN Get(limits, userId)
                   ELSE UserLimit(0, t + 60000)
  IN IF t > userLimit.resetTime
     THEN [rateLimits |-> Set(limits, userId, UserLimit(1, t + 60000)), allowed |-> TRUE]
     ELSE [rateLimits |-> Set(limits, userId, UserLimit(userLimit.count + 1, userLimit.resetTime)),
           allowed |-> userLimit.count < 20]

\* checkRateLimit(userId) at time t: the map it leaves and what it returns
checkRateLimit(limits, userId, t) ==
  LET userLimit == IF Has(limits, userId) THEN Get(limits, userId)
                   ELSE UserLimit(0, t + 60000)
  IN IF t > userLimit.resetTime
     THEN [rateLimits |-> Set(limits, userId, UserLimit(1, t + 60000)), allowed |-> TRUE]
     ELSE IF userLimit.count >= 20
     THEN [rateLimits |-> limits, allowed |-> FALSE]
     ELSE [rateLimits |-> Set(limits, userId, UserLimit(userLimit.count + 1, userLimit.resetTime)),
           allowed |-> TRUE]

\* the record of the calls that were let through
Admit(a, userId, t, ok) ==
  IF ~ok THEN a
  ELSE Set(a, userId, Append(IF Has(a, userId) THEN Get(a, userId) ELSE <<>>, t))

Tick ==
  /\ rev = "tiered"
  /\ ticks < MaxTicks
  /\ \E d \in TickSteps : now' = now + d
  /\ ticks' = ticks + 1
  /\ UNCHANGED <<rateLimits, admitted, allowed, httpVars, pgVars, eqVars>>

CheckRateLimit ==
  /\ rev = "tiered"
  /\ \E userId \in LimitUserIds :
       LET out == checkRateLimit(rateLimits, userId, now)
       IN /\ rateLimits' = out.rateLimits
          /\ allowed' = out.allowed
          /\ admitted' = Admit(admitted, userId, now, out.allowed)
  /\ UNCHANGED <<now, ticks, httpVars, pgVars, eqVars>>

NextLimiter == Tick \/ CheckRateLimit

(***************************************************************************)
(* The tiered revision, part_003 lines 36-49 and 116-282: the generation   *)
(* endpoint and the coin proxy.  fbDocs holds the coins of the remote      *)
(* documents users/<userId>.json.  A request waits twice: for the balance  *)
(* lookup (gen.pc = "tier") and for the vendor (gen.pc = "vendor").  The   *)
(* record admitted is kept for the calls of checkRateLimit made on their   *)
(* own, not for those made by this handler.                                *)
(***************************************************************************)
TierCoinVals == {Undefined, Num(0, 0), Num(100, 0), Num(100, 1), Num(101, 0)}

TierBody(prompt, userId) ==
  [userId |-> userId] @@ Body("object", Undefined, Undefined, Undefined, prompt, Undefined)

\* data.coins > 100
GreaterThan100(v) == v.t = "number" /\ (v.w > 100 \/ (v.w = 100 /\ v.f = 1))

\* checkUserHasPaidCoins counting the starting amount itself as paid
checkUserHasPaidCoinsFrom100(docs, userId, k) ==
  k = "ok" /\ Has(docs, userId) /\ Get(docs, userId).t = "number" /\ Get(docs, userId).w >= 100

\* checkUserHasPaidCoins(userId); k is what the lookup came to: "throw" when
\* fetch or response.json() rejects, "error" for an error document, "ok"
\* for the user's document or null
checkUserHasPaidCoins(docs, userId, k) ==
  k = "ok" /\ Has(docs, userId) /\ GreaterThan100(Get(docs, userId))

\* the payload and the vendor it is posted to
TierCall(hasPaidCoins, prompt) ==
  IF hasPaidCoins
  THEN [url |-> "api.openai.com"] @@ Call("gpt-5-nano", Undefined, prompt, "none")
  ELSE [url |-> "openrouter.ai"] @@ Call("z-ai/glm-4-32b", Undefined, prompt, "none")

\* GenerateTier asking the rate limiter before it looks at the fields
GenerateTierLimitingFirst(body, limits, t) ==
  LET out == checkRateLimit(limits, body.userId, t)
  IN IF ~out.allowed
     THEN [res |-> ErrorReply(429, "Rate limit exceeded. Try again later."),
           gen |-> Idle, rateLimits |-> out.rateLimits, allowed |-> FALSE]
     ELSE IF ~Truthy(body.prompt) \/ NoUserId(body.userId)
     THEN [res |-> ErrorReply(400, "Missing prompt or userId"), gen |-> Idle,
           rateLimits |-> out.rateLimits, allowed |-> FALSE]
     ELSE [res |-> NoReply, gen |-> Gen("tier", "", body, Valid),
           rateLimits |-> out.rateLimits, allowed |-> TRUE]

\* the handler up to its first await: required fields, then the rate limit
GenerateTier(body, limits, t) ==
  IF ~Truthy(body.prompt) \/ NoUserId(body.userId)
  THEN [res |-> ErrorReply(400, "Missing prompt or userId"), gen |-> Idle,
        rateLimits |-> limits, allowed |-> FALSE]
  ELSE LET out == checkRateLimit(limits, body.userId, t)
       IN IF ~out.allowed
          THEN [res |-> ErrorReply(429, "Rate limit exceeded. Try again later."),
                gen |-> Idle, rateLimits |-> out.rateLimits, allowed |-> FALSE]
          ELSE [res |-> NoReply, gen |-> Gen("tier", "", body, Valid),
                rateLimits |-> out.rateLimits, allowed |-> TRUE]

\* the handler after the vendor call has settled: tier is set on the data
\* that response.json() gave, which throws for null and does nothing for a
\* value that is no object
RespondTier(tier, model, v, status) ==
  IF v.k = "throw" THEN ErrorReply(500, "Internal server error")
  ELSE IF v.k = "error" THEN ErrorReply(status, "API error")
  ELSE IF v.content.doc.k = "null" THEN ErrorReply(500, "Internal server error")
  ELSE IF v.content.doc.k = "scalar"
  THEN [tier |-> ""] @@ GenReply("", v.content, Undefined)
  ELSE [tier |-> tier] @@ GenReply(model, v.content, v.usage)

GenerateRequestTier ==
  /\ rev = "tiered"
  /\ gen.pc = "idle"
  /\ \E p \in {Undefined, Str(<<"prompt">>)}, u \in {NoKey} \cup LimitUserIds :
       LET out == GenerateTier(TierBody(p, u), rateLimits, now)
       IN /\ req' = Request("POST", <<"api", "generate">>, TierBody(p, u))
          /\ res' = out.res
          /\ gen' = out.gen
          /\ rateLimits' = out.rateLimits
          /\ allowed' = out.allowed
          /\ calls' = <<>>
  /\ settled' = NotSettled
  /\ UNCHANGED <<now, ticks, admitted, rev, apiKey, userCoins, pgVars, eqVars>>

LookupReturnsTier ==
  /\ rev = "tiered"
  /\ gen.pc = "tier"
  /\ \E k \in {"ok", "error", "throw"} :
       LET hasPaidCoins == checkUserHasPaidCoins(fbDocs, gen.body.userId, k)
       IN /\ gen' = Gen("vendor", IF hasPaidCoins THEN "paid" ELSE "free", gen.body, Valid)
          /\ calls' = <<TierCall(hasPaidCoins, gen.body.prompt)>>
          /\ fbFailed' = (k # "ok")
  /\ UNCHANGED <<limVars, settled, rev, apiKey, userCoins, req, res, fbDocs, fbRes, pgVars>>

VendorReturnsTier ==
  /\ rev = "tiered"
  /\ gen.pc = "vendor"
  /\ \E v \in VendorOutcomes({Content("json", Doc(k, Keyframes("missing", <<>>), FALSE)) :
                                k \in {"object", "null", "scalar"}}),
        status \in {401, 500} :
       /\ res' = RespondTier(gen.type, calls[1].model, v, status)
       /\ settled' = Settled(v)
  /\ gen' = Idle
  /\ UNCHANGED <<limVars, rev, apiKey, userCoins, req, calls, pgVars, eqVars>>

\* app.put('/api/firebase/coins/:userId'); k is what the remote PUT came to
PutCoinsTier ==
  /\ rev = "tiered"
  /\ gen.pc = "idle"
  /\ \E u \in LimitUserIds, c \in TierCoinVals, k \in {"ok", "error", "throw"} :
       /\ req' = Request("PUT", <<"api", "firebase", "coins", u>>,
                         TierBody(Undefined, u) @@ [coins |-> c])
       /\ res' = IF c = Undefined THEN ErrorReply(400, "Missing userId or coins")
                 ELSE IF k = "throw" THEN ErrorReply(500, "Internal server error")
                 ELSE IF k = "error" THEN ErrorReply(401, "Firebase error")
                 ELSE CoinReply(200, "", c, Undefined)
       /\ fbDocs' = IF c # Undefined /\ k = "ok" THEN Set(fbDocs, u, c) ELSE fbDocs
  /\ calls' = <<>>
  /\ settled' = NotSettled
  /\ UNCHANGED <<limVars, rev, apiKey, userCoins, gen, fbRes, fbFailed, pgVars>>

\* app.post('/api/gemini') up to its await: the same two tests as
\* /api/generate, on the same rateLimits, then the call to Gemini
GenerateGemini(body, limits, t) ==
  IF ~Truthy(body.prompt) \/ NoUserId(body.userId)
  THEN [res |-> ErrorReply(400, "Missing prompt or userId"), gen |-> Idle,
        rateLimits |-> limits, allowed |-> FALSE, calls |-> <<>>]
  ELSE LET out == checkRateLimit(limits, body.userId, t)
       IN IF ~out.allowed
          THEN [res |-> ErrorReply(429, "Rate limit exceeded. Try again later."),
                gen |-> Idle, rateLimits |-> out.rateLimits, allowed |-> FALSE,
                calls |-> <<>>]
          ELSE [res |-> NoReply, gen |-> Gen("gemini", "", body, Valid),
                rateLimits |-> out.rateLimits, allowed |-> TRUE,
                calls |-> <<[url |-> "generativelanguage.googleapis.com"]
                              @@ Call("gemini-2.0-flash-exp", Undefined, body.prompt, "none")>>]

\* app.post('/api/gemini') after the call has settled: the vendor's status
\* and message for a refusal, else the vendor's data as it came
RespondGemini(v, status) ==
  IF v.k = "throw" THEN ErrorReply(500, "Internal server error")
  ELSE IF v.k = "error" THEN ErrorReply(status, "Gemini API error")
  ELSE [tier |-> ""] @@ GenReply("", v.content, v.usage)

GeminiRequest ==
  /\ rev = "tiered"
  /\ gen.pc = "idle"
  /\ \E p \in {Undefined, Str(<<"prompt">>)}, u \in {NoKey} \cup LimitUserIds :
       LET out == GenerateGemini(TierBody(p, u), rateLimits, now)
       IN /\ req' = Request("POST", <<"api", "gemini">>, TierBody(p, u))
          /\ res' = out.res
          /\ gen' = out.gen
          /\ rateLimits' = out.rateLimits
          /\ allowed' = out.allowed
          /\ calls' = out.calls
  /\ settled' = NotSettled
  /\ UNCHANGED <<now, ticks, admitted, rev, apiKey, userCoins, pgVars, eqVars>>

GeminiReturns ==
  /\ rev = "tiered"
  /\ gen.pc = "gemini"
  /\ \E v \in VendorOutcomes({Content("json", Doc("object", Keyframes("missing", <<>>), FALSE))}),
        status \in {401, 500} :
       /\ res' = RespondGemini(v, status)
       /\ settled' = Settled(v)
  /\ gen' = Idle
  /\ UNCHANGED <<limVars, rev, apiKey, userCoins, req, calls, pgVars, eqVars>>

NextTier ==
  \/ GenerateRequestTier
  \/ LookupReturnsTier
  \/ VendorReturnsTier
  \/ PutCoinsTier
  \/ GeminiRequest
  \/ GeminiReturns
  \/ Tick

(***************************************************************************)
(* Specifications.                                                         *)
(***************************************************************************)
HttpRevs == {"v4.0", "v4.1", "v3.7", "v7.0"}

InitRev(revs) ==
  /\ rev \in revs
  /\ apiKey \in BOOLEAN
  /\ userCoins = EmptyMap
  /\ req = NoRequest
  /\ res = NoReply
  /\ gen = Idle
  /\ calls = <<>>
  /\ table = EmptyMap
  /\ pg = [p \in Procs |-> PgIdle]
  /\ fbDocs = EmptyMap
  /\ fbRes = NoReply
  /\ fbFailed = FALSE
  /\ now = 0
  /\ ticks = 0
  /\ rateLimits = EmptyMap
  /\ admitted = EmptyMap
  /\ allowed = FALSE
  /\ settled = NotSettled

\* the four revisions of the node http server
Init == InitRev(HttpRevs)

Next == Next40 \/ Next41 \/ Next37 \/ Next70

Spec == Init /\ [][Next]_vars

\* v4.1 alone
InitV41 == InitRev({"v4.1"})

SpecV41 == InitV41 /\ [][Next41]_vars

\* v7.0 alone
InitV70 == InitRev({"v7.0"})

SpecV70 == InitV70 /\ [][Next70]_vars

\* the PostgreSQL revision
InitPg == InitRev({"postgresql"}) /\ apiKey

SpecPg == InitPg /\ [][NextPg]_vars

\* v3.7 and v2.1.0 side by side
InitEq == InitRev({"v3.7 and v2.1.0"}) /\ apiKey

SpecEq == InitEq /\ [][NextEq]_vars

\* the generation endpoints of v2.1.0
InitV21 == InitRev({"v2.1.0"}) /\ apiKey

SpecV21 == InitV21 /\ [][Next21]_vars

\* the rate limiter of the tiered revision
InitLimiter == InitRev({"tiered"}) /\ apiKey

SpecLimiter == InitLimiter /\ [][NextLimiter]_vars

\* the tiered revision
InitTier == InitRev({"tiered"}) /\ apiKey

SpecTier == InitTier /\ [][NextTier]_vars

\* v4.1 and the tiered revision: the revisions that keep a ledger beside
\* their generation proxy
InitProxy == InitRev({"v4.1", "tiered"})

SpecProxy == InitProxy /\ [][Next41 \/ NextTier]_vars

(***************************************************************************)
(* Properties.                                                             *)
(***************************************************************************)
\* the balance a user counts as having: the stored one, 100 without an entry
Balance(m, u) == IF u \in DOMAIN m THEN m[u] ELSE Num(100, 0)

\* the step is a request of the validated ledger answered with 200
LedgerStep(route) ==
  /\ rev \in {"v4.1", "v7.0"}
  /\ Route41(req'.method, req'.path) = route
  /\ res'.status = 200

\* C1: in v4.1 and v7.0 an accepted add of a > 0 for user u returns and
\* stores (balance of u before the request) + a, where only a user without
\* an entry counts as having 100, also when the stored balance is 0.
C1_AddIsAdditive ==
  [][LedgerStep("add") =>
       LET u == Segment3(req'.path)
           total == Plus(Balance(userCoins, u), req'.body.amount)
       IN res'.coins = total /\ userCoins'[u] = total]_vars

NonNegativeInteger(v) == v.t = "number" /\ v.w >= 0 /\ v.f = 0

\* C2: in v4.1 and v7.0 every stored balance is a non-negative integer in
\* every reachable state.
C2_StoredBalancesAreNonNegativeIntegers ==
  rev \in {"v4.1", "v7.0"} => \A u \in DOMAIN userCoins : NonNegativeInteger(userCoins[u])

\* C4: in v4.1 a user without an entry is treated as having 100 whichever
\* operation comes first: a first GET returns and stores 100, a first add(a)
\* returns and stores 100 + a, a first PUT reports previous = 100; and a GET
\* for a user that has an entry returns the stored balance and leaves the
\* ledger unchanged.
C4_FirstAccessStartsAt100 ==
  [][(rev = "v4.1" /\ res'.status = 200) =>
       LET u == Segment3(req'.path)
           route == Route41(req'.method, req'.path)
           first == u \notin DOMAIN userCoins
       IN /\ (route = "get" /\ first) =>
               (res'.coins = Num(100, 0) /\ userCoins' = Set(userCoins, u, Num(100, 0)))
          /\ (route = "add" /\ first) =>
               /\ res'.coins = Plus(Num(100, 0), req'.body.amount)
               /\ userCoins' = Set(userCoins, u, Plus(Num(100, 0), req'.body.amount))
          /\ (route = "put" /\ first) => res'.previous = Num(100, 0)
          /\ (route = "get" /\ ~first) =>
               (res'.coins = userCoins[u] /\ userCoins' = userCoins)]_vars

\* a first add has been answered: the user starts at 100 and gets 0.5
C4_Witness ==
  /\ rev = "v4.1"
  /\ Route41(req.method, req.path) = "add"
  /\ res.status = 200
  /\ res.previous = Num(100, 0)
  /\ req.body.amount = Num(0, 1)
  /\ userCoins[Segment3(req.path)] = Num(100, 1)

\* C7: in v4.1 a user id that has an entry in userCoins has one in every
\* later state, whatever the method, path and outcome of the requests.
C7_NoDeletionPath ==
  [][rev = "v4.1" => \A u \in DOMAIN userCoins : u \in DOMAIN userCoins']_vars

\* a DELETE request for a user that has an entry has been answered with 404
C7_Witness ==
  /\ rev = "v4.1"
  /\ req.method = "DELETE"
  /\ StartsWithCoins(req.path)
  /\ Segment3(req.path) \in DOMAIN userCoins
  /\ res.status = 404

\* C8: in v7.0 the model named in the retry request is never the model
\* named in the primary request.
C8_RetryUsesAnotherModel ==
  (rev = "v7.0" /\ Len(calls) >= 2) => calls[2].model # calls[1].model

\* C9: in v7.0 at most two vendor calls are made for a generation request;
\* the second is made only after the primary call, only for type animation
\* and only when the primary content failed validateAnimation; and after the
\* retry the request ends, with 200 for content that validates and with 500
\* otherwise, without a further call.
C9_SingleLinearRetry ==
  /\ [](rev = "v7.0" => Len(calls) <= 2)
  /\ [][(rev = "v7.0" /\ Len(calls') > Len(calls) /\ Len(calls) >= 1) =>
          /\ gen.pc = "primary"
          /\ gen.type = "animation"
          /\ gen'.pc = "retry"
          /\ ~gen'.validation.valid
          /\ res' = NoReply]_vars
  /\ [][(rev = "v7.0" /\ gen.pc = "retry") =>
          /\ gen'.pc = "idle"
          /\ calls' = calls
          /\ \/ res'.status = 500
             \/ /\ res'.status = 200
                /\ validateAnimation(res'.data, RigType(gen.body)).valid]_vars

\* the retried content failed validation too and the request ended with 500
C9_Witness ==
  /\ rev = "v7.0"
  /\ Len(calls) = 2
  /\ res.status = 500
  /\ res.error = "GPT-5.1 failed validation"

\* the schema of the rig of an animation request
RequestSchema(body, doc) ==
  IF RigType(body) = Str(<<"r15">>) THEN R15_ANIMATION_SCHEMA(doc) ELSE R6_ANIMATION_SCHEMA(doc)

\* C10: in v7.0 a 200 response for type animation carries data that
\* satisfies the animation schema of the request's rig.
C10_SuccessDataSatisfiesSchema ==
  (/\ rev = "v7.0"
   /\ req.method = "POST"
   /\ req.path = <<"api", "generate", "animation">>
   /\ res.status = 200) => RequestSchema(req.body, res.data.doc)

\* C3: in v4.0 and v3.7 every stored balance is a non-negative integer in
\* every reachable state, whatever valid JSON the bodies of the requests are.
C3_UnvalidatedBalancesAreNonNegativeIntegers ==
  rev \in {"v4.0", "v3.7"} => \A u \in DOMAIN userCoins : NonNegativeInteger(userCoins[u])

\* the step is the statement of an add request that is the first request
\* ever to reach user u, answered by handler p
FirstAdd(p, u) ==
  /\ pg[p].pc = "add"
  /\ pg'[p].pc = "idle"
  /\ pg[p].req.userId = u
  /\ pg'[p].res.status = 200
  /\ u \notin DOMAIN table
  /\ \A q \in Procs \ {p} : pg[q].pc = "idle"

\* C5: in the PostgreSQL revision, if the first request for user u is an add
\* of amount a, the balance returned and stored is 100 + a.
C5_FirstAddStartsAt100 ==
  [][\A p \in Procs, u \in PgUserIds :
       FirstAdd(p, u) =>
         /\ table'[u] = Plus(Num(100, 0), pg'[p].req.arg)
         /\ pg'[p].res.coins = Plus(Num(100, 0), pg'[p].req.arg)]_vars

\* C6: v3.7 and v2.1.0 answer every GET of a series of PUT (non-negative
\* integer coins, 0 included) and GET requests with the same coins value,
\* as long as the remote store has answered.
C6_SameCoinsFromBothBackends ==
  (req.method = "GET" /\ ~fbFailed) => (fbRes.status = res.status /\ fbRes.coins = res.coins)

\* sequence s occurs in sequence t as a run of consecutive elements
IsInfix(s, t) ==
  \E i \in 0..(Len(t) - Len(s)) : \A j \in 1..Len(s) : t[i + j] = s[j]

\* C11: in v7.0 every vendor call made for a generation request, the primary
\* call and the retry call alike, carries the request's systemPrompt as its
\* system message and a user message that contains the request's prompt.
C11_EveryCallForwardsBothPrompts ==
  [][(rev = "v7.0" /\ calls' # calls /\ Len(calls') >= 1) =>
       LET call == calls'[Len(calls')]
       IN /\ call.system = req'.body.systemPrompt
          /\ call.user.t = "string"
          /\ IsInfix(req'.body.prompt.s, call.user.s)]_vars

\* the text that a vendor call carries: its system message, then its user
\* message
CallText(call) ==
  (IF call.system.t = "string" THEN call.system.s ELSE <<>>) \o call.user.s

\* C12: in v2.1.0 the text sent to the vendor for an accepted generation
\* request contains the request's prompt as well as its systemPrompt, at
\* each of the four endpoints.
C12_VendorTextHasBothPrompts ==
  [][(rev = "v2.1.0" /\ gen.pc = "idle" /\ gen'.pc = "primary") =>
       LET call == calls'[Len(calls')]
       IN /\ IsInfix(req'.body.systemPrompt.s, CallText(call))
          /\ IsInfix(req'.body.prompt.s, CallText(call))]_vars

\* the number of calls recorded in times whose time lies in [from, from + 60000)
AdmittedIn(times, from) ==
  Cardinality({i \in DOMAIN times : times[i] >= from /\ times[i] < from + 60000})

\* C13: whatever the timing of the calls, checkRateLimit returns true for at
\* most 20 calls of one user in any interval of 60 seconds.
C13_AtMost20PerMinute ==
  rev = "tiered" =>
    \A u \in DOMAIN admitted :
      \A i \in DOMAIN admitted[u] : AdmittedIn(admitted[u], admitted[u][i]) <= 20

\* the request in hand is a POST /api/generate of the tiered revision
TierGenerate == rev = "tiered" /\ req.method = "POST" /\ req.path = <<"api", "generate">>

\* C14: in the tiered revision an admitted POST /api/generate makes exactly
\* one vendor call, made once: to OpenAI with gpt-5-nano if and only if the
\* balance read for the user at that request is greater than 100, and to
\* OpenRouter otherwise, also without a document or after a failed lookup;
\* and tier and model_used of a success response name the vendor called.
C14_OneVendorByBalance ==
  /\ [](rev = "tiered" => Len(calls) <= 1)
  /\ [][(rev = "tiered" /\ gen.pc = "tier" /\ gen' # gen) =>
          LET u == gen.body.userId
              paid == /\ ~fbFailed'
                      /\ u \in DOMAIN fbDocs
                      /\ fbDocs[u].t = "number"
                      /\ 2 * fbDocs[u].w + fbDocs[u].f > 200
          IN /\ gen'.pc = "vendor"
             /\ Len(calls') = 1
             /\ paid => (calls'[1].url = "api.openai.com" /\ calls'[1].model = "gpt-5-nano")
             /\ ~paid => calls'[1].url = "openrouter.ai"]_vars
  /\ [][(rev = "tiered" /\ gen.pc = "vendor") => calls' = calls]_vars
  /\ [](TierGenerate /\ res.status = 200 /\ res.data.doc.k = "object" =>
          /\ Len(calls) = 1
          /\ res.model = calls[1].model
          /\ res.tier = (IF calls[1].url = "api.openai.com" THEN "paid" ELSE "free"))

\* a user with more than 100 coins was served by OpenAI
C14_Witness ==
  /\ TierGenerate
  /\ res.status = 200
  /\ res.data.doc.k = "object"
  /\ res.tier = "paid"
  /\ calls[1].url = "api.openai.com"
  /\ fbDocs[req.body.userId] = Num(101, 0)

\* the step belongs to a POST to a generation endpoint: the request is
\* taken, or one of its awaited calls settles
GenerationStep ==
  /\ res' # res \/ gen' # gen
  /\ req'.method = "POST"
  /\ \/ rev = "v4.1" /\ StartsWithGenerate(req'.path)
     \/ rev = "tiered" /\ req'.path = <<"api", "generate">>

\* C15: in v4.1 and in the tiered revision no step of a POST to a
\* generation endpoint changes a stored balance, whatever the request comes
\* to.
C15_GenerationLeavesLedgerAlone ==
  [][GenerationStep => (userCoins' = userCoins /\ fbDocs' = fbDocs)]_vars

\* C16: in the PostgreSQL revision, under every interleaving of GET, PUT and
\* add requests, no GET /api/coins/:userId for a numeric user id ends with
\* a 500 response: once answered, it carries success and a balance.
C16_ConcurrentGetSucceeds ==
  \A p \in Procs :
    (rev = "postgresql" /\ pg[p].req.op = "get" /\ IsBigint(pg[p].req.userId)
       /\ pg[p].pc = "idle")
      => (pg[p].res.status = 200 /\ pg[p].res.coins.t = "number")

\* C17: in v4.1 and v7.0 a POST /api/generate/<type> whose type is none of
\* animation, vfx, script, ui is answered 400 'Invalid generation type', and
\* no vendor call is made for it.
C17_InvalidTypeIsRefused ==
  [][(/\ rev \in {"v4.1", "v7.0"}
      /\ req'.method = "POST"
      /\ StartsWithGenerate(req'.path)
      /\ Segment3(req'.path) \notin validTypes
      /\ <<req, res, gen, calls, userCoins>>' # <<req, res, gen, calls, userCoins>>) =>
       /\ res'.status = 400
       /\ res'.error = "Invalid generation type"
       /\ gen'.pc = "idle"
       /\ calls' = <<>>]_vars

\* the generation request r passes every check of v4.1
FullyValid41(r, key) ==
  /\ Segment3(r.path) \in validTypes
  /\ r.body.k = "object"
  /\ key
  /\ Truthy(r.body.systemPrompt)
  /\ Truthy(r.body.prompt)

\* C18: in v4.1 a generation request causes a vendor call only if its type
\* is valid, its body parsed, the API key is configured and systemPrompt
\* and prompt are non-empty; a request failing one of these checks gets a
\* 400 or 500 response and causes no vendor call.
C18_OnlyValidRequestsReachVendor ==
  [][(rev = "v4.1" /\ gen.pc = "idle" /\ Route41(req'.method, req'.path) = "generate") =>
       /\ gen'.pc # "idle" => FullyValid41(req', apiKey)
       /\ calls' # <<>> => FullyValid41(req', apiKey)
       /\ ~FullyValid41(req', apiKey) =>
            /\ res'.status \in {400, 500}
            /\ gen'.pc = "idle"
            /\ calls' = <<>>]_vars

\* C19: in v7.0 a vendor error is never reported as success: a non-OK
\* status of the primary call ends the request with a 500 response and
\* without a retry; a non-OK status of the retry call ends it with a 500
\* response whose error starts with 'Retry failed: '.
C19_VendorErrorIsNeverSuccess ==
  /\ [][(rev = "v7.0" /\ gen.pc = "primary" /\ settled'.k = "error") =>
          /\ res'.status = 500
          /\ res'.error # ""
          /\ gen'.pc = "idle"
          /\ calls' = calls]_vars
  /\ [][(rev = "v7.0" /\ gen.pc = "retry" /\ gen'.pc # "retry" /\ settled'.k = "error") =>
          /\ res'.status = 500
          /\ res'.error = "Retry failed: "
          /\ gen'.pc = "idle"
          /\ calls' = calls]_vars

\* the vendor refused the retry call and the request ended with 500
C19_Witness ==
  /\ rev = "v7.0"
  /\ Len(calls) = 2
  /\ settled.k = "error"
  /\ res.status = 500
  /\ res.error = "Retry failed: "

\* the vendor call settled with an OK status and without usable content
SettledEmpty ==
  /\ settled.k = "ok"
  /\ settled.content \in {"undefined", "empty", "blank", "nochoices", "nomessage"}

\* C20: in v4.0, v4.1 and v3.7, when the vendor returns an OK status but no
\* content (missing, empty or whitespace only, or no first choice), the
\* client receives status 500, and no 200 response of a generation request
\* carries empty data.
C20_EmptyResponseIsAnError ==
  (rev \in {"v4.0", "v4.1", "v3.7"} /\ gen.pc = "idle") =>
    /\ SettledEmpty => (res.status = 500 /\ res.error # "")
    /\ (settled.k = "ok" /\ res.status = 200) =>
         (res.data.k \in {"text", "json"} /\ ~EmptyContent(res.data))

\* the vendor answered OK with whitespace only and the client got 500
C20_Witness ==
  /\ rev \in {"v4.0", "v4.1", "v3.7"}
  /\ gen.pc = "idle"
  /\ settled.k = "ok"
  /\ settled.content = "blank"
  /\ res.status = 500

\* C21: in v7.0, when the vendor call of a vfx, script or ui generation
\* succeeds with non-empty string content, the client receives a 200 success
\* response whose data is that content, whether or not the content is JSON.
C21_NonAnimationContentPassesThrough ==
  [][(/\ rev = "v7.0"
      /\ gen.pc = "primary"
      /\ gen.type # "animation"
      /\ settled'.k = "ok"
      /\ settled'.content \in {"text", "json"}) =>
       /\ res'.status = 200
       /\ res'.data.k = settled'.content]_vars

\* a request has arrived, no step of its handler remains and no vendor call
\* is awaited, and nothing has been sent for it
Unanswered == req # NoRequest /\ gen.pc = "idle" /\ res.status = 0

\* C22: in v4.1 with the API key configured, every request is answered in
\* the end, whatever its method, path and body, provided each vendor call
\* settles: no handler comes to its end without having sent a response.
C22_EveryRequestIsAnswered ==
  (rev = "v4.1" /\ apiKey) => ~Unanswered

\* the request in hand went to one of the three coin handlers of v4.1
CoinRequest41(r) == Route41(r.method, r.path) \in {"get", "put", "add"}

\* C23: in v4.1 a coin request answered with status 400 leaves the whole
\* ledger as it was: no entry is added and no balance is modified.
C23_RefusedCoinRequestLeavesLedger ==
  [][(rev = "v4.1" /\ CoinRequest41(req') /\ res'.status = 400) =>
       userCoins' = userCoins]_vars

\* a PUT with an invalid coin amount was refused while the ledger held an entry
C23_Witness ==
  /\ rev = "v4.1"
  /\ Route41(req.method, req.path) = "put"
  /\ res.status = 400
  /\ res.error = "Invalid coin amount"
  /\ userCoins # EmptyMap

\* the step runs the statement of handler p's add request
AddRuns(p) == pg[p].pc = "add" /\ pg'[p].pc = "idle"

\* C24: in the PostgreSQL revision no increment is lost: whenever the
\* statement of an add request with an integer amount runs on a user that
\* has a row, whatever other requests are waiting, the request succeeds, the
\* stored balance grows by exactly its amount, the balance returned is the
\* new stored balance, and nothing else changes; the stored balance is thus
\* the sum of the amounts run so far, and the balances returned are the
\* running totals in the order in which the statements ran.
C24_NoIncrementIsLost ==
  [][\A p \in Procs :
       (/\ rev = "postgresql"
        /\ AddRuns(p)
        /\ Has(table, pg[p].req.userId)
        /\ IsInteger(pg[p].req.arg)) =>
         LET u == pg[p].req.userId
         IN /\ pg'[p].res.status = 200
            /\ table'[u] = Plus(table[u], pg[p].req.arg)
            /\ pg'[p].res.coins = table'[u]
            /\ \A x \in DOMAIN table' \ {u} : Has(table, x) /\ table'[x] = table[x]
            /\ \A q \in Procs \ {p} : pg'[q] = pg[q]]_vars

\* two handlers have added to the same user; the second statement ran on
\* the balance the first had left
C24_Witness ==
  /\ rev = "postgresql"
  /\ \A p \in Procs :
       pg[p].pc = "idle" /\ pg[p].req.op = "add" /\ pg[p].req.userId = "1"
         /\ pg[p].res.status = 200
  /\ pg["a"].res.coins = Num(50, 0)
  /\ pg["b"].res.coins = Plus(pg["a"].res.coins, pg["b"].req.arg)
  /\ table["1"] = pg["b"].res.coins

\* the step takes a POST to one of the two proxy endpoints of the tiered
\* revision
ProxyRequest ==
  /\ rev = "tiered"
  /\ gen.pc = "idle"
  /\ now' = now
  /\ req'.method = "POST"
  /\ req'.path \in {<<"api", "gemini">>, <<"api", "generate">>}

\* the request taken has its fields, and its user has used up the window
OverLimit ==
  /\ Truthy(req'.body.prompt)
  /\ ~NoUserId(req'.body.userId)
  /\ Has(rateLimits, req'.body.userId)
  /\ now <= rateLimits[req'.body.userId].resetTime
  /\ rateLimits[req'.body.userId].count >= 20

\* C25: in the tiered revision a request that the rate limiter refuses, on
\* /api/gemini or /api/generate, is answered 429 and starts neither a balance
\* lookup nor a vendor call; and a request answered 400 for a missing prompt
\* or userId leaves every rate-limit counter as it was.
C25_RefusalsCostNothing ==
  [][ProxyRequest =>
       /\ OverLimit <=> res'.status = 429
       /\ res'.status = 429 =>
            /\ gen'.pc = "idle"
            /\ calls' = <<>>
            /\ <<fbDocs, fbRes, fbFailed>>' = <<fbDocs, fbRes, fbFailed>>
       /\ res'.status = 400 => rateLimits' = rateLimits]_vars

\* the limiter has refused a request to /api/gemini
C25_Witness ==
  /\ rev = "tiered"
  /\ req.path = <<"api", "gemini">>
  /\ res.status = 429
  /\ gen.pc = "idle"
  /\ calls = <<>>

\* the step is a call of checkRateLimit: the clock stands still
LimiterCall == rev = "tiered" /\ now' = now /\ <<rateLimits, allowed, admitted>>' # <<rateLimits, allowed, admitted>>

\* C26: in checkRateLimit a refused call changes neither the user's count nor
\* its resetTime, every stored count is between 1 and 20, and a call made
\* later than the stored resetTime returns true and starts a new window with
\* count 1 that ends 60000 ms after the call: a refused user is admitted
\* again by its first call after the window.
C26_RefusedUserIsAdmittedAgain ==
  /\ [](rev = "tiered" =>
          \A u \in DOMAIN rateLimits : rateLimits[u].count \in 1..20)
  /\ [][LimiterCall =>
          /\ ~allowed' => rateLimits' = rateLimits
          /\ \A u \in LimitUserIds :
               (Has(rateLimits, u) /\ now > rateLimits[u].resetTime) =>
                 /\ allowed'
                 /\ rateLimits'[u] = UserLimit(1, now + 60000)]_vars

\* the user was refused after 20 admitted calls, and the clock has since
\* passed the end of the window
C26_Witness ==
  /\ rev = "tiered"
  /\ ~allowed
  /\ Has(rateLimits, "u1")
  /\ rateLimits["u1"].count = 20
  /\ Len(admitted["u1"]) >= 20
  /\ now > rateLimits["u1"].resetTime

\* C27: in v7.0 the model and usage of a success response are those of the
\* vendor call whose content is returned: of the primary call when its
\* content was accepted, and of the retry call, whatever the primary call
\* had reported, when the retried content was accepted.
C27_ModelAndUsageOfReturnedCall ==
  [][(rev = "v7.0" /\ gen.pc \in {"primary", "retry"} /\ res'.status = 200) =>
       LET n == IF gen.pc = "primary" THEN 1 ELSE 2
       IN /\ Len(calls') = n
          /\ res'.data.k = settled'.content
          /\ res'.usage = settled'.usage
          /\ res'.model = calls'[n].model]_vars

\* the retried content was accepted and its usage returned
C27_Witness ==
  /\ rev = "v7.0"
  /\ gen.pc = "idle"
  /\ Len(calls) = 2
  /\ res.status = 200
  /\ res.usage = Num(9, 0)
  /\ settled.usage = Num(9, 0)
  /\ res.model = "gpt-5.1"

====
